---- MODULE Spec2Model ----
(***************************************************************************)
(* A model of the finfetch digest engine: news normalisation, headline    *)
(* sentiment, the daily 24h filter, price change, the sections of         *)
(* generate_weekly_digest / generate_daily_digest, and the digest and     *)
(* fetch-digest commands with the cache hydration of _ensure_cache.       *)
(*                                                                         *)
(* Python values are represented as follows.                              *)
(*   str        a tuple of one-character strings, "" is <<>>               *)
(*   None       the tuple None; a missing dict key is the tuple Absent     *)
(*   datetime   a record [kind, t, aware]; t counts seconds from           *)
(*              datetime.min, aware says whether it carries a UTC offset   *)
(*   float      a fraction [n, d] with d > 0 (exact arithmetic)            *)
(***************************************************************************)
EXTENDS Integers, Sequences, FiniteSets, TLC

VARIABLES
    pc,           \* position in the function call or in the digest build
    arg,          \* arguments of the function call or of the digest build
    ret,          \* result of the function call
    cache,        \* contents of the SQLite cache
    idx,          \* index of the ticker loop in progress
    ticker_data,  \* ticker_data, as a list in dict insertion order
    all_news,     \* all_news
    lines,        \* Markdown lines appended so far
    csv_rows,     \* csv_rows
    locals,       \* changes, avg_change, up, down, best, worst, sector_map, themes
    files,        \* artifacts written to out_dir
    exc,          \* exception that ended the digest build or the command
    cmd,          \* the command line and the YAML file of a CLI invocation
    workers,      \* the futures of _ensure_cache, one per submitted ticker
    events,       \* provider fetches and cache writes performed so far
    previous,     \* the files an earlier run of the same digest left in out_dir
    transcripts   \* rows of the transcripts table, in insertion order

digest_vars == <<cache, idx, ticker_data, all_news, lines, csv_rows, locals, files, exc>>

hydrate_vars == <<cmd, workers, events, previous, transcripts>>

vars == <<pc, arg, ret, cache, idx, ticker_data, all_news, lines, csv_rows, locals,
          files, exc, cmd, workers, events, previous, transcripts>>

(***************************************************************************)
(* Bounds of the model.                                                    *)
(***************************************************************************)
MaxItems == 2
MaxNews == 3
MaxTitles == 2
MaxTickers == 2

(***************************************************************************)
(* Python values.                                                          *)
(***************************************************************************)
None == <<"None">>
Absent == <<"Absent">>

\* bool(v) for a str-or-None value
Truthy(v) == v # None /\ v # Absent /\ v # <<>>

\* Python's `a or b`
Or(a, b) == IF Truthy(a) THEN a ELSE b

\* dict.get(key) and dict.get(key, default)
Get(item, key) == IF item[key] = Absent THEN None ELSE item[key]

GetD(item, key, default) == IF item[key] = Absent THEN default ELSE item[key]

(***************************************************************************)
(* Timestamps.                                                             *)
(***************************************************************************)
SecondsPerDay == 86400

\* the local time of epoch second 0, in seconds from datetime.min
EpochBase == 10 * SecondsPerDay

NoneDT == [kind |-> "none", t |-> 0, aware |-> FALSE]

DT(t, aware) == [kind |-> "dt", t |-> t, aware |-> aware]

\* datetime.datetime.min
datetime_min == DT(0, FALSE)

\* raw published_at values found in a news item
StampAbsent == [kind |-> "absent", t |-> 0, aware |-> FALSE]
StampBad == [kind |-> "bad", t |-> 0, aware |-> FALSE]
StampIso(t, aware) == [kind |-> "iso", t |-> t, aware |-> aware]
StampNum(n) == [kind |-> "num", t |-> n, aware |-> FALSE]

\* bool(v) of a raw published_at value: None, 0 and "" are falsy
StampTruthy(v) ==
    CASE v.kind = "absent" -> FALSE
      [] v.kind = "none" -> FALSE
      [] v.kind = "num" -> v.t # 0
      [] OTHER -> TRUE

StampOr(a, b) == IF StampTruthy(a) THEN a ELSE b

_parse_datetime(value) ==
    CASE value.kind = "dt" -> value
      [] value.kind = "num" -> DT(EpochBase + value.t, FALSE)
      [] value.kind = "iso" -> DT(value.t, value.aware)
      [] OTHER -> NoneDT

(***************************************************************************)
(* _normalize_news                                                         *)
(***************************************************************************)
\* key = item.get("id") or item.get("url") or item.get("title")
DedupKey_TitleBeforeUrl(item) == Or(Or(Get(item, "id"), Get(item, "title")), Get(item, "url"))

DedupKey(item) == Or(Or(Get(item, "id"), Get(item, "url")), Get(item, "title"))

\* the dict appended to `normalized` for one raw item
NormalizedItem(item) ==
    [id |-> Get(item, "id"),
     title |-> GetD(item, "title", <<>>),
     url |-> GetD(item, "url", <<>>),
     source |-> GetD(item, "source", <<"U","n","k","n","o","w","n">>),
     published_at |-> _parse_datetime(StampOr(item.published_at, item.publishedAt)),
     provider |-> GetD(item, "provider", <<"u","n","k","n","o","w","n">>)]

\* the loop over items: skip an item whose key was seen, else append it
RECURSIVE DedupLoop(_, _, _)
DedupLoop(items, seen, normalized) ==
    IF items = <<>> THEN normalized
    ELSE LET item == Head(items)
             key == DedupKey(item)
         IN IF key \in seen
            THEN DedupLoop(Tail(items), seen, normalized)
            ELSE DedupLoop(Tail(items), seen \cup {key},
                           Append(normalized, NormalizedItem(item)))

\* key=lambda x: x.get("published_at") or datetime.datetime.min
SortKey(x) == IF x.published_at.kind = "dt" THEN x.published_at ELSE datetime_min

\* comparing an offset-naive with an offset-aware datetime raises TypeError
MixedAwareness(list) ==
    \E i, j \in 1..Len(list) : SortKey(list[i]).aware # SortKey(list[j]).aware

\* list.sort(reverse=True) is stable: equal keys keep their order
RECURSIVE InsertDesc_Ascending(_, _)
InsertDesc_Ascending(sorted, x) ==
    IF sorted = <<>> THEN <<x>>
    ELSE IF SortKey(Head(sorted)).t <= SortKey(x).t
         THEN <<Head(sorted)>> \o InsertDesc_Ascending(Tail(sorted), x)
         ELSE <<x>> \o sorted

RECURSIVE InsertDesc(_, _)
InsertDesc(sorted, x) ==
    IF sorted = <<>> THEN <<x>>
    ELSE IF SortKey(Head(sorted)).t >= SortKey(x).t
         THEN <<Head(sorted)>> \o InsertDesc(Tail(sorted), x)
         ELSE <<x>> \o sorted

RECURSIVE SortLoop(_, _)
SortLoop(list, sorted) ==
    IF list = <<>> THEN sorted
    ELSE SortLoop(Tail(list), InsertDesc(sorted, Head(list)))

SortByPublishedDesc(list) == SortLoop(list, <<>>)

Returned(v) == [exc |-> "none", val |-> v]
Raised(e) == [exc |-> e, val |-> <<>>]
NoResult == [exc |-> "pending", val |-> <<>>]

_normalize_news(items) ==
    LET normalized == DedupLoop(items, {}, <<>>)
    IN IF MixedAwareness(normalized)
       THEN Raised("TypeError")
       ELSE Returned(SortByPublishedDesc(normalized))

(***************************************************************************)
(* _headline_sentiment                                                     *)
(***************************************************************************)
_POS_WORDS_NoGuidance ==
    {"beat", "beats", "surge", "surges", "soar", "soars", "soared",
     "record", "strong", "stronger", "growth", "profit", "profits",
     "up", "upgrade", "upgrades", "bull", "bullish", "raises", "raise",
     "accelerate", "accelerates", "wins", "win", "positive"}

_POS_WORDS ==
    {"beat", "beats", "surge", "surges", "soar", "soars", "soared",
     "record", "strong", "stronger", "growth", "profit", "profits",
     "up", "upgrade", "upgrades", "bull", "bullish", "raises", "raise",
     "accelerate", "accelerates", "wins", "win", "positive", "guidance"}

_NEG_WORDS ==
    {"miss", "misses", "slump", "slumps", "drop", "drops", "dropped",
     "weak", "weaker", "decline", "declines", "down", "downgrade",
     "downgrades", "bear", "bearish", "cuts", "cut", "slowdown",
     "loss", "losses", "negative", "warning", "warns"}

UpperChars ==
    <<"A","B","C","D","E","F","G","H","I","J","K","L","M",
      "N","O","P","Q","R","S","T","U","V","W","X","Y","Z">>

LowerChars ==
    <<"a","b","c","d","e","f","g","h","i","j","k","l","m",
      "n","o","p","q","r","s","t","u","v","w","x","y","z">>

DigitChars == {"0","1","2","3","4","5","6","7","8","9"}

LowerOf == [i \in 1..26 |-> LowerChars[i]]

UpperIndex == [c \in {UpperChars[i] : i \in 1..26} |->
                  CHOOSE i \in 1..26 : UpperChars[i] = c]

\* str.lower() on one character
Lower(c) == IF c \in DOMAIN UpperIndex THEN LowerOf[UpperIndex[c]] ELSE c

\* the character class [a-z0-9]
WordChars == {LowerChars[i] : i \in 1..26} \cup DigitChars

IsWordChar(c) == c \in WordChars

\* re.findall(r"[a-z0-9]+", title.lower()): the maximal runs of word
\* characters, left to right
RECURSIVE FindAll(_, _, _)
FindAll(chars, word, found) ==
    IF chars = <<>>
    THEN IF word = "" THEN found ELSE Append(found, word)
    ELSE LET c == Lower(Head(chars))
         IN IF IsWordChar(c)
            THEN FindAll(Tail(chars), word \o c, found)
            ELSE FindAll(Tail(chars), "",
                         IF word = "" THEN found ELSE Append(found, word))

Words(title) == FindAll(title, "", <<>>)

WordSet(title) == LET words == Words(title) IN {words[i] : i \in 1..Len(words)}

_headline_sentiment(title) ==
    LET words == WordSet(title)
        pos == \E w \in words : w \in _POS_WORDS
        neg == \E w \in words : w \in _NEG_WORDS
    IN IF pos /\ ~neg THEN 1
       ELSE IF neg /\ ~pos THEN -1
       ELSE 0

\* label = "Catalyst" if tag > 0 else "Risk" if tag < 0 else "Neutral"
RiskCatalystLabel(title) ==
    LET tag == _headline_sentiment(title)
    IN IF tag > 0 THEN "Catalyst" ELSE IF tag < 0 THEN "Risk" ELSE "Neutral"

(***************************************************************************)
(* _weighted_sentiment.  Weights and sums are counted in units of 1/70    *)
(* (0.2 = 14/70, 0.5 = 35/70, 1 - days/7 = (70 - 10*days)/70), the score   *)
(* is the fraction score_sum / total_weight.                               *)
(***************************************************************************)
WeightUnit == 70

Max(a, b) == IF a >= b THEN a ELSE b

\* (now - dt).days: timedelta.days is the floor of the difference in days
DaysBetween(now, dt) == (now - dt.t) \div SecondsPerDay

\* weight = max(0.2, 1.0 - (days / 7.0)) without the lower limit
RecencyWeight_NoFloor(days) == WeightUnit - 10 * days

RecencyWeight(days) == Max(14, WeightUnit - 10 * days)

\* days = (now - dt).days without max(0.0, ...)
ItemWeight_NoClamp(item, now) ==
    IF item.published_at.kind = "dt"
    THEN RecencyWeight(DaysBetween(now, item.published_at))
    ELSE 35

ItemWeight(item, now) ==
    IF item.published_at.kind = "dt"
    THEN RecencyWeight(Max(0, DaysBetween(now, item.published_at)))
    ELSE 35

Frac(n, d) == [n |-> n, d |-> d]

RECURSIVE SentimentLoop(_, _, _, _)
SentimentLoop(news, now, total_weight, score_sum) ==
    IF news = <<>> THEN Frac(score_sum, total_weight)
    ELSE LET item == Head(news)
             sentiment == _headline_sentiment(item.title)
             weight == ItemWeight(item, now)
         IN SentimentLoop(Tail(news), now, total_weight + weight,
                          score_sum + sentiment * weight)

\* score >= 0.15 and score <= -0.15 for score = n / d, where d > 0
L_Positive == <<"P","o","s","i","t","i","v","e">>
L_Negative == <<"N","e","g","a","t","i","v","e">>
L_Neutral == <<"N","e","u","t","r","a","l">>
L_Unknown == <<"U","n","k","n","o","w","n">>

SentimentLabel(score) ==
    IF 100 * score.n >= 15 * score.d THEN L_Positive
    ELSE IF 100 * score.n <= -15 * score.d THEN L_Negative
    ELSE L_Neutral

\* now - dt raises TypeError when dt is offset-aware (now is naive)
_weighted_sentiment(news, now) ==
    IF news = <<>> THEN Returned([label |-> L_Neutral, score |-> Frac(0, 1)])
    ELSE IF \E i \in 1..Len(news) :
               news[i].published_at.kind = "dt" /\ news[i].published_at.aware
    THEN Raised("TypeError")
    ELSE LET sums == SentimentLoop(news, now, 0, 0)
         IN IF sums.d = 0
            THEN Returned([label |-> L_Neutral, score |-> Frac(0, 1)])
            ELSE Returned([label |-> SentimentLabel(sums), score |-> sums])

(***************************************************************************)
(* Numbers.  A Python float or None is a record [some, n, d]: None has     *)
(* some = FALSE, a number is the fraction n / d with d > 0.                *)
(***************************************************************************)
NoneNum == [some |-> FALSE, n |-> 0, d |-> 1]

RECURSIVE GCD(_, _)
GCD(a, b) == IF b = 0 THEN a ELSE GCD(b, a % b)

Abs(x) == IF x < 0 THEN -x ELSE x

\* the number n / d, in lowest terms with a positive denominator
Num(n, d) ==
    LET g == GCD(Abs(n), Abs(d))
        sign == IF d < 0 THEN -1 ELSE 1
    IN [some |-> TRUE, n |-> sign * (n \div g), d |-> sign * (d \div g)]

\* bool(x): None and 0 are falsy
NumTruthy(x) == x.some /\ x.n # 0

NumLess(a, b) == a.n * b.d < b.n * a.d

NumEq(a, b) == a.n * b.d = b.n * a.d

NumAdd(a, b) == Num(a.n * b.d + b.n * a.d, a.d * b.d)

RECURSIVE NumSum(_)
NumSum(list) == IF list = <<>> THEN Num(0, 1) ELSE NumAdd(Head(list), NumSum(Tail(list)))

\* sum(values) / len(values)
NumMean(list) == LET total == NumSum(list) IN Num(total.n, total.d * Len(list))

(***************************************************************************)
(* Ticker symbols are strings: t.upper() and sorted().                     *)
(***************************************************************************)
LowerIndex == [c \in {LowerChars[k] : k \in 1..26} |->
                  CHOOSE k \in 1..26 : LowerChars[k] = c]

\* str.upper() on one character
Upper(c) == IF c \in DOMAIN LowerIndex THEN UpperChars[LowerIndex[c]] ELSE c

StrUpper(str) == [k \in 1..Len(str) |-> Upper(str[k])]

\* code points of the characters used in ticker symbols
Ord(c) ==
    IF c \in DOMAIN UpperIndex THEN 64 + UpperIndex[c]
    ELSE IF c \in DOMAIN LowerIndex THEN 96 + LowerIndex[c]
    ELSE IF c \in DigitChars
         THEN 48 + (CHOOSE n \in 0..9 : <<"0","1","2","3","4","5","6","7","8","9">>[n + 1] = c)
    ELSE 0

\* a < b for two Python strings
RECURSIVE StrLess(_, _)
StrLess(a, b) ==
    IF b = <<>> THEN FALSE
    ELSE IF a = <<>> THEN TRUE
    ELSE IF Ord(Head(a)) # Ord(Head(b)) THEN Ord(Head(a)) < Ord(Head(b))
    ELSE StrLess(Tail(a), Tail(b))

RECURSIVE InsertStr(_, _)
InsertStr(sorted, x) ==
    IF sorted = <<>> THEN <<x>>
    ELSE IF StrLess(x, Head(sorted))
         THEN <<x>> \o sorted
         ELSE <<Head(sorted)>> \o InsertStr(Tail(sorted), x)

RECURSIVE SortedStrs(_)
SortedStrs(list) ==
    IF list = <<>> THEN <<>>
    ELSE InsertStr(SortedStrs(SubSeq(list, 1, Len(list) - 1)), list[Len(list)])

TickersSorted_InputOrder(tickers) == [k \in 1..Len(tickers) |-> StrUpper(tickers[k])]

\* tickers_sorted = sorted([t.upper() for t in tickers])
TickersSorted(tickers) == SortedStrs([k \in 1..Len(tickers) |-> StrUpper(tickers[k])])

(***************************************************************************)
(* The cache: a function from the keys that have a row to their values.    *)
(* A key f"{prefix}{ticker}{suffix}" is the record of its three parts.     *)
(***************************************************************************)
Key(prefix, ticker, suffix) == [prefix |-> prefix, ticker |-> ticker, suffix |-> suffix]

FundamentalsKey(ticker) == Key("yahoo:fundamentals:", ticker, "")
PricesKey(ticker) == Key("yahoo:prices:", ticker, ":5d:1d")
YahooNewsKey(ticker) == Key("yahoo:news:", ticker, ":latest")
FinnhubNewsKey(ticker) == Key("finnhub:news:", ticker, ":latest")
SentimentLatestKey(ticker) == Key("finnhub:sentiment:", ticker, ":latest")
SentimentKey(ticker) == Key("finnhub:sentiment:", ticker, "")
MarketNewsKey == Key("finnhub:market_news:general:0", <<>>, "")

\* cache.get(key) or []
CacheGetList(key) == IF key \in DOMAIN cache THEN cache[key] ELSE <<>>

(***************************************************************************)
(* _filter_news_last_24h                                                   *)
(***************************************************************************)
Hours24 == 24 * 3600

\* start <= dt <= end with the upper comparison strict
InWindow_ExclusiveEnd(dt, end) == end - Hours24 <= dt.t /\ dt.t < end

InWindow(dt, end) == end - Hours24 <= dt.t /\ dt.t <= end

RECURSIVE FilterLoop(_, _)
FilterLoop(items, end) ==
    IF items = <<>> THEN <<>>
    ELSE LET item == Head(items)
             dt == item.published_at
         IN IF dt.kind = "dt" /\ InWindow(dt, end)
            THEN <<item>> \o FilterLoop(Tail(items), end)
            ELSE FilterLoop(Tail(items), end)

\* end = end_time or datetime.datetime.now(); comparing an offset-aware dt
\* with the naive bounds raises TypeError
_filter_news_last_24h(items, end_time, now) ==
    LET end == IF end_time.kind = "dt" THEN end_time.t ELSE now
    IN IF \E k \in 1..Len(items) :
             items[k].published_at.kind = "dt" /\ items[k].published_at.aware
       THEN Raised("TypeError")
       ELSE Returned(FilterLoop(items, end))

(***************************************************************************)
(* Price change of one ticker.                                             *)
(***************************************************************************)
\* prices[k].get("close")
Close(bar) == bar.close

\* change = ((end_price - start_price) / start_price) * 100 inside
\* `if start_price:` and try/except; closes are whole numbers >= 0
PriceChange(start_price, end_price) ==
    IF NumTruthy(start_price) /\ end_price.some
    THEN Num((end_price.n - start_price.n) * 100, start_price.n)
    ELSE NoneNum

\* weekly: prices[0]; daily: prices[-2]
StartIndex_AlwaysFirst(variant, prices) == 1

StartIndex(variant, prices) == IF variant = "weekly" THEN 1 ELSE Len(prices) - 1

ChangeOf(variant, prices) ==
    IF Len(prices) >= 2
    THEN LET start_price == Close(prices[StartIndex(variant, prices)])
             end_price == Close(prices[Len(prices)])
         IN [change |-> PriceChange(start_price, end_price),
             start_price |-> start_price, end_price |-> end_price]
    ELSE [change |-> NoneNum, start_price |-> NoneNum, end_price |-> NoneNum]

(***************************************************************************)
(* _extract_themes.  A theme is a record [word, count]; words are kept as  *)
(* tuples of characters so that they can be ordered.                       *)
(***************************************************************************)
_STOP_WORDS ==
    {"the", "and", "for", "with", "from", "that", "this", "into", "over",
     "after", "before", "ahead", "amid", "as", "at", "by", "on", "in",
     "to", "of", "a", "an", "is", "are", "be", "its", "it", "their",
     "shares", "stock", "stocks", "company", "corp", "inc", "ltd",
     "co", "report", "reports", "quarter", "q1", "q2", "q3", "q4",
     "year", "years", "says", "said", "saying"}

\* the Python string of a tuple of characters
RECURSIVE Str(_)
Str(chars) == IF chars = <<>> THEN "" ELSE Head(chars) \o Str(Tail(chars))

\* re.findall(r"[a-z0-9]+", title.lower()), each word as a tuple of characters
RECURSIVE FindTokens(_, _, _)
FindTokens(chars, word, found) ==
    IF chars = <<>>
    THEN IF word = <<>> THEN found ELSE Append(found, word)
    ELSE LET c == Lower(Head(chars))
         IN IF IsWordChar(c)
            THEN FindTokens(Tail(chars), Append(word, c), found)
            ELSE FindTokens(Tail(chars), <<>>,
                            IF word = <<>> THEN found ELSE Append(found, word))

\* if len(w) < 3 or w in _STOP_WORDS: continue, without the length test
ThemeWord_AnyLength(w) == Str(w) \notin _STOP_WORDS

ThemeWord(w) == Len(w) >= 3 /\ Str(w) \notin _STOP_WORDS

RECURSIVE KeepThemeWords(_)
KeepThemeWords(words) ==
    IF words = <<>> THEN <<>>
    ELSE IF ThemeWord(Head(words))
         THEN <<Head(words)>> \o KeepThemeWords(Tail(words))
         ELSE KeepThemeWords(Tail(words))

\* the words counted by the two nested loops, in order of occurrence
RECURSIVE CountedWords(_)
CountedWords(news) ==
    IF news = <<>> THEN <<>>
    ELSE KeepThemeWords(FindTokens(Head(news).title, <<>>, <<>>))
            \o CountedWords(Tail(news))

\* counts: the number of occurrences of every counted word
ThemeCounts(words) ==
    {[word |-> w, count |-> Cardinality({k \in 1..Len(words) : words[k] = w})] :
        w \in {words[k] : k \in 1..Len(words)}}

\* key=lambda x: (-x[1], x[0])
ThemeBefore(a, b) ==
    a.count > b.count \/ (a.count = b.count /\ StrLess(a.word, b.word))

\* sorted(counts.items(), key=...)
RECURSIVE SortThemes(_)
SortThemes(items) ==
    IF items = {} THEN <<>>
    ELSE LET first == CHOOSE x \in items : \A y \in items \ {x} : ThemeBefore(x, y)
         IN <<first>> \o SortThemes(items \ {first})

\* items[:limit], with a negative limit counting from the end
Slice(list, limit) ==
    IF limit >= 0 THEN SubSeq(list, 1, IF Len(list) < limit THEN Len(list) ELSE limit)
    ELSE SubSeq(list, 1, IF Len(list) + limit < 0 THEN 0 ELSE Len(list) + limit)

\* item.get("title", "").lower() raises AttributeError on a title None
_extract_themes(news, limit) ==
    IF \E k \in 1..Len(news) : news[k].title = None
    THEN Raised("AttributeError")
    ELSE Returned(Slice(SortThemes(ThemeCounts(CountedWords(news))), limit))

\* the default of the parameter limit
DefaultLimit == 6

(***************************************************************************)
(* generate_weekly_digest / generate_daily_digest                          *)
(***************************************************************************)
Weekly == arg.fn = "generate_weekly_digest"

tickers_sorted == TickersSorted(arg.tickers)

\* end_time = datetime.combine(day, time(23, 59, 59)) if digest_date else None
EndOfDay == 23 * 3600 + 59 * 60 + 59

end_time ==
    IF arg.digest_date.some
    THEN DT(arg.digest_date.n * SecondsPerDay + EndOfDay, FALSE)
    ELSE NoneDT

\* cache.get(f"yahoo:fundamentals:{ticker}") or {}
EmptyDict == [name |-> Absent, sector |-> Absent, industry |-> Absent]

Fundamentals(ticker) ==
    IF FundamentalsKey(ticker) \in DOMAIN cache
    THEN cache[FundamentalsKey(ticker)]
    ELSE EmptyDict

\* ticker_data[ticker] = record: a new key is appended, an old one replaced
DictSet(dict, record) ==
    IF \E k \in 1..Len(dict) : dict[k].ticker = record.ticker
    THEN [k \in 1..Len(dict) |->
             IF dict[k].ticker = record.ticker THEN record ELSE dict[k]]
    ELSE Append(dict, record)

DictGet(dict, ticker) == dict[CHOOSE k \in 1..Len(dict) : dict[k].ticker = ticker]

\* merged_news, and in the daily variant daily_news
TickerNews(ticker) ==
    LET merged == _normalize_news(CacheGetList(YahooNewsKey(ticker))
                                  \o CacheGetList(FinnhubNewsKey(ticker)))
    IN IF merged.exc # "none" \/ Weekly THEN merged
       ELSE _filter_news_last_24h(merged.val, end_time, arg.now)

Raise(e) ==
    /\ pc' = "raised"
    /\ exc' = e

\* one iteration of `for ticker in tickers_sorted` that fills ticker_data
LoadTicker ==
    /\ pc = "load"
    /\ LET ticker == tickers_sorted[idx]
           prices == CacheGetList(PricesKey(ticker))
           news == TickerNews(ticker)
           chg == ChangeOf(IF Weekly THEN "weekly" ELSE "daily", prices)
       IN IF news.exc # "none"
          THEN /\ Raise(news.exc)
               /\ UNCHANGED <<idx, ticker_data, all_news>>
          ELSE /\ ticker_data' = DictSet(ticker_data,
                     [ticker |-> ticker,
                      fundamentals |-> Fundamentals(ticker),
                      prices |-> prices,
                      change |-> chg.change,
                      start_price |-> chg.start_price,
                      end_price |-> chg.end_price,
                      news |-> news.val])
               /\ all_news' = all_news \o news.val
               /\ idx' = IF idx = Len(tickers_sorted) THEN 1 ELSE idx + 1
               /\ pc' = IF idx = Len(tickers_sorted) THEN "snapshot" ELSE "load"
               /\ exc' = exc
    /\ UNCHANGED <<arg, ret, cache, lines, csv_rows, locals, files>>
    /\ UNCHANGED hydrate_vars

\* changes = [d["change"] for d in ticker_data.values() if isinstance(...)]
RECURSIVE Changes(_)
Changes(dict) ==
    IF dict = <<>> THEN <<>>
    ELSE IF Head(dict).change.some
         THEN <<Head(dict).change>> \o Changes(Tail(dict))
         ELSE Changes(Tail(dict))

\* up = len([c for c in changes if c >= 0]) with c > 0 instead
CountUp_StrictlyPositive(changes) == Cardinality({k \in 1..Len(changes) : changes[k].n > 0})

CountUp(changes) == Cardinality({k \in 1..Len(changes) : changes[k].n >= 0})

CountDown(changes) == Cardinality({k \in 1..Len(changes) : changes[k].n < 0})

\* key=lambda x: change if change is not None else -9999 (9999 for min)
BestKey(record) == IF record.change.some THEN record.change ELSE Num(-9999, 1)

WorstKey(record) == IF record.change.some THEN record.change ELSE Num(9999, 1)

\* max(...) and min(...) return the first item that no other item beats
ArgMax(dict) ==
    CHOOSE k \in 1..Len(dict) :
        /\ \A j \in 1..Len(dict) : ~NumLess(BestKey(dict[k]), BestKey(dict[j]))
        /\ \A j \in 1..(k - 1) : NumLess(BestKey(dict[j]), BestKey(dict[k]))

ArgMin(dict) ==
    CHOOSE k \in 1..Len(dict) :
        /\ \A j \in 1..Len(dict) : ~NumLess(WorstKey(dict[j]), WorstKey(dict[k]))
        /\ \A j \in 1..(k - 1) : NumLess(WorstKey(dict[k]), WorstKey(dict[j]))

HeaderLines ==
    <<[kind |-> "title"], [kind |-> "date"], [kind |-> "blank"]>>

\* the header and the "## Market Snapshot" section; formatting the change
\* of best or worst with :.2f raises TypeError when that change is None
MarketSnapshot ==
    /\ pc = "snapshot"
    /\ LET changes == Changes(ticker_data)
           head == HeaderLines \o <<[kind |-> "section", name |-> "Market Snapshot"]>>
       IN IF changes # <<>>
          THEN LET avg_change == NumMean(changes)
                   up == CountUp(changes)
                   down == CountDown(changes)
                   best == ArgMax(ticker_data)
                   worst == ArgMin(ticker_data)
                   two == head \o <<[kind |-> "breadth", up |-> up, down |-> down],
                                    [kind |-> "average", value |-> avg_change]>>
                   best_line == [kind |-> "best", ticker |-> ticker_data[best].ticker,
                                 value |-> ticker_data[best].change]
                   worst_line == [kind |-> "worst", ticker |-> ticker_data[worst].ticker,
                                  value |-> ticker_data[worst].change]
               IN /\ locals' = [locals EXCEPT !.changes = changes,
                                               !.avg_change = avg_change,
                                               !.up = up, !.down = down,
                                               !.best = best, !.worst = worst]
                  /\ IF ~ticker_data[best].change.some
                     THEN lines' = two /\ Raise("TypeError")
                     ELSE IF ~ticker_data[worst].change.some
                     THEN lines' = Append(two, best_line) /\ Raise("TypeError")
                     ELSE /\ lines' = two \o <<best_line, worst_line, [kind |-> "blank"]>>
                          /\ pc' = "sector"
                          /\ exc' = exc
          ELSE /\ locals' = [locals EXCEPT !.changes = changes]
               /\ lines' = head \o <<[kind |-> "snapshot_note"], [kind |-> "blank"]>>
               /\ pc' = "sector"
               /\ exc' = exc
    /\ UNCHANGED <<arg, ret, cache, idx, ticker_data, all_news, csv_rows, files>>
    /\ UNCHANGED hydrate_vars

\* sector = (data["fundamentals"] or {}).get("sector") or "Unknown"
SectorOf(data) ==
    IF Truthy(data.fundamentals.sector) THEN data.fundamentals.sector ELSE L_Unknown

\* sector_map.setdefault(sector, []).append(change)
SetDefaultAppend(map, sector, change) ==
    IF \E k \in 1..Len(map) : map[k].sector = sector
    THEN [k \in 1..Len(map) |->
             IF map[k].sector = sector
             THEN [sector |-> sector, values |-> Append(map[k].values, change)]
             ELSE map[k]]
    ELSE Append(map, [sector |-> sector, values |-> <<change>>])

\* the loop over ticker_data.items() that fills sector_map
RECURSIVE SectorMapLoop(_, _)
SectorMapLoop(dict, map) ==
    IF dict = <<>> THEN map
    ELSE SectorMapLoop(Tail(dict),
            IF Head(dict).change.some
            THEN SetDefaultAppend(map, SectorOf(Head(dict)), Head(dict).change)
            ELSE map)

\* key=lambda x: (-x[1], x[0]) with the sign of the average dropped
SectorBefore_AverageAscending(a, b) ==
    NumLess(a.average_change, b.average_change)
    \/ (NumEq(a.average_change, b.average_change) /\ StrLess(a.sector, b.sector))

\* key=lambda x: (-x[1], x[0])
SectorBefore(a, b) ==
    NumLess(b.average_change, a.average_change)
    \/ (NumEq(a.average_change, b.average_change) /\ StrLess(a.sector, b.sector))

RECURSIVE SortSectors(_)
SortSectors(items) ==
    IF items = {} THEN <<>>
    ELSE LET first == CHOOSE x \in items : \A y \in items \ {x} : SectorBefore(x, y)
         IN <<first>> \o SortSectors(items \ {first})

\* sector_items: (sector, sum(values) / len(values)), sorted
SectorItems(map) ==
    SortSectors({[sector |-> map[k].sector, average_change |-> NumMean(map[k].values)] :
                    k \in 1..Len(map)})

\* the "## Sector Rotation" section
SectorRotation ==
    /\ pc = "sector"
    /\ LET sector_map == SectorMapLoop(ticker_data, <<>>)
           sector_items == SectorItems(sector_map)
       IN /\ locals' = [locals EXCEPT !.sector_map = sector_map]
          /\ lines' = lines
                \o <<[kind |-> "section", name |-> "Sector Rotation"]>>
                \o (IF sector_map # <<>>
                    THEN [k \in 1..Len(sector_items) |->
                             [kind |-> "sector", sector |-> sector_items[k].sector,
                              value |-> sector_items[k].average_change]]
                    ELSE <<[kind |-> "sector_note"]>>)
                \o <<[kind |-> "blank"]>>
    /\ pc' = "themes"
    /\ UNCHANGED <<arg, ret, cache, idx, ticker_data, all_news, csv_rows, files, exc>>
    /\ UNCHANGED hydrate_vars

\* the "## Top Themes" section
TopThemes ==
    /\ pc = "themes"
    /\ LET themes == _extract_themes(all_news, DefaultLimit)
       IN IF themes.exc # "none"
          THEN /\ lines' = Append(lines, [kind |-> "section", name |-> "Top Themes"])
               /\ Raise(themes.exc)
               /\ UNCHANGED locals
          ELSE /\ locals' = [locals EXCEPT !.themes = themes.val]
               /\ lines' = lines
                     \o <<[kind |-> "section", name |-> "Top Themes"]>>
                     \o (IF themes.val # <<>>
                         THEN [k \in 1..Len(themes.val) |->
                                  [kind |-> "theme", word |-> themes.val[k].word,
                                   count |-> themes.val[k].count]]
                         ELSE <<[kind |-> "themes_note"]>>)
                     \o <<[kind |-> "blank"]>>
               /\ pc' = "market_news"
               /\ exc' = exc
    /\ UNCHANGED <<arg, ret, cache, idx, ticker_data, all_news, csv_rows, files>>
    /\ UNCHANGED hydrate_vars

\* items[:n]
Take_All(list, n) == list

\* list[:n]
Take(list, n) == SubSeq(list, 1, IF Len(list) < n THEN Len(list) ELSE n)

\* dt.isoformat() if isinstance(dt, datetime.datetime) else ""
IsoFormat(dt) ==
    IF dt.kind = "dt" THEN StampIso(dt.t, dt.aware)
    ELSE [kind |-> "empty", t |-> 0, aware |-> FALSE]

CsvRow(scope, ticker, item) ==
    [scope |-> scope, ticker |-> ticker, source |-> item.source, title |-> item.title,
     url |-> item.url, published_at |-> IsoFormat(item.published_at),
     provider |-> item.provider]

HeadlineLine(kind, ticker, item) ==
    [kind |-> kind, ticker |-> ticker, source |-> item.source, title |-> item.title,
     url |-> item.url]

\* market_items: the normalized market news, filtered in the daily variant
MarketItems ==
    LET market_items == _normalize_news(CacheGetList(MarketNewsKey))
    IN IF market_items.exc # "none" \/ Weekly THEN market_items
       ELSE _filter_news_last_24h(market_items.val, end_time, arg.now)

\* the "## Market News" section
MarketNews ==
    /\ pc = "market_news"
    /\ IF arg.include_market_news
       THEN LET market_items == MarketItems
                shown == Take(market_items.val, 5)
            IN IF market_items.exc # "none"
               THEN /\ lines' = Append(lines, [kind |-> "section", name |-> "Market News"])
                    /\ Raise(market_items.exc)
                    /\ UNCHANGED csv_rows
               ELSE /\ lines' = lines
                         \o <<[kind |-> "section", name |-> "Market News"]>>
                         \o (IF shown # <<>>
                             THEN [k \in 1..Len(shown) |->
                                      HeadlineLine("market_headline", <<>>, shown[k])]
                             ELSE <<[kind |-> "market_note"]>>)
                         \o <<[kind |-> "blank"]>>
                    /\ csv_rows' = csv_rows
                         \o [k \in 1..Len(shown) |-> CsvRow("market", <<>>, shown[k])]
                    /\ pc' = "highlights"
                    /\ exc' = exc
       ELSE /\ pc' = "highlights"
            /\ UNCHANGED <<lines, csv_rows, exc>>
    /\ UNCHANGED <<arg, ret, cache, idx, ticker_data, all_news, locals, files>>
    /\ UNCHANGED hydrate_vars

(***************************************************************************)
(* The sentiment payload of a ticker.  A cached value is a record          *)
(* [type, label, sentiment, score]; type is "dict", "list" (a non-empty    *)
(* list) or "none" (no row); score is [kind, n, d] with kind "absent",     *)
(* "num" or "text" (a string that is not a number).                        *)
(***************************************************************************)
NoScore == [kind |-> "absent", n |-> 0, d |-> 1]

NonePayload ==
    [type |-> "none", label |-> Absent, sentiment |-> Absent, score |-> NoScore]

CacheGetPayload(key) == IF key \in DOMAIN cache THEN cache[key] ELSE NonePayload

\* bool(payload): None and the empty dict are falsy
PayloadTruthy(p) ==
    CASE p.type = "none" -> FALSE
      [] p.type = "dict" ->
            p.label # Absent \/ p.sentiment # Absent \/ p.score.kind # "absent"
      [] OTHER -> TRUE

\* cache.get(f"finnhub:sentiment:{ticker}:latest") or cache.get(f"finnhub:sentiment:{ticker}")
SentimentPayload(ticker) ==
    LET latest == CacheGetPayload(SentimentLatestKey(ticker))
    IN IF PayloadTruthy(latest) THEN latest ELSE CacheGetPayload(SentimentKey(ticker))

\* sentiment_payload.get("label") or sentiment_payload.get("sentiment") or "Unknown"
PayloadLabel(p) == Or(Or(Get(p, "label"), Get(p, "sentiment")), L_Unknown)

NotAvailable == [kind |-> "N/A", n |-> 0, d |-> 1]

\* _format_ratio(score) if score is not None else "N/A"
_format_ratio(score) == IF score.kind = "num" THEN score ELSE NotAvailable

\* the Markdown sentiment line of one ticker; the daily variant formats
\* float(score), which raises ValueError for a score that is not a number
SentimentLine(ticker, news) ==
    LET p == SentimentPayload(ticker)
    IN IF p.type = "dict"
       THEN IF ~Weekly /\ p.score.kind = "text"
            THEN Raised("ValueError")
            ELSE Returned([kind |-> "sentiment", ticker |-> ticker,
                           source |-> "Finnhub", label |-> PayloadLabel(p),
                           score |-> _format_ratio(p.score)])
       ELSE LET weighted == _weighted_sentiment(news, arg.now)
            IN IF weighted.exc # "none" THEN weighted
               ELSE Returned([kind |-> "sentiment", ticker |-> ticker,
                              source |-> "weighted", label |-> weighted.val.label,
                              score |-> [kind |-> "num", n |-> weighted.val.score.n,
                                         d |-> weighted.val.score.d]])

\* the sentiment object of one ticker in the JSON report
SentimentJson(ticker, news) ==
    LET p == SentimentPayload(ticker)
    IN IF p.type = "dict"
       THEN Returned([source |-> "finnhub", label |-> PayloadLabel(p), score |-> p.score])
       ELSE LET weighted == _weighted_sentiment(news, arg.now)
            IN IF weighted.exc # "none" THEN weighted
               ELSE Returned([source |-> "weighted", label |-> weighted.val.label,
                              score |-> [kind |-> "num", n |-> weighted.val.score.n,
                                         d |-> weighted.val.score.d]])

\* the change line shows numbers only when change is a number and both
\* prices are truthy
ChangeLine(data) ==
    IF data.change.some /\ NumTruthy(data.start_price) /\ NumTruthy(data.end_price)
    THEN [kind |-> "change", ticker |-> data.ticker, value |-> data.change,
          start_price |-> data.start_price, end_price |-> data.end_price]
    ELSE [kind |-> "change_na", ticker |-> data.ticker]

IdentityLine(data) ==
    [kind |-> "identity", ticker |-> data.ticker,
     name |-> GetD(data.fundamentals, "name", L_Unknown),
     sector |-> GetD(data.fundamentals, "sector", <<"N","/","A">>),
     industry |-> GetD(data.fundamentals, "industry", <<"N","/","A">>)]

\* one iteration of `for ticker in tickers_sorted` under "## Ticker Highlights"
TickerHighlight ==
    /\ pc = "highlights"
    /\ LET ticker == tickers_sorted[idx]
           data == DictGet(ticker_data, ticker)
           news == data.news
           shown == Take(news, 3)
           sentiment == SentimentLine(ticker, news)
           head == (IF idx = 1
                    THEN <<[kind |-> "section", name |-> "Ticker Highlights"]>>
                    ELSE <<>>)
                   \o <<[kind |-> "ticker", ticker |-> ticker],
                        IdentityLine(data), ChangeLine(data)>>
       IN IF sentiment.exc # "none"
          THEN /\ lines' = lines \o head
               /\ Raise(sentiment.exc)
               /\ UNCHANGED <<csv_rows, idx>>
          ELSE /\ lines' = lines \o head \o <<sentiment.val>>
                    \o (IF news # <<>>
                        THEN [k \in 1..Len(shown) |->
                                 HeadlineLine("headline", ticker, shown[k])]
                        ELSE <<[kind |-> "headlines_na", ticker |-> ticker]>>)
                    \o (IF news # <<>>
                        THEN [k \in 1..Len(shown) |->
                                 [kind |-> "risk_catalyst", ticker |-> ticker,
                                  label |-> RiskCatalystLabel(shown[k].title),
                                  title |-> shown[k].title]]
                        ELSE <<[kind |-> "risks_na", ticker |-> ticker]>>)
                    \o <<[kind |-> "blank"]>>
               /\ csv_rows' = csv_rows
                    \o [k \in 1..Len(shown) |-> CsvRow("ticker", ticker, shown[k])]
               /\ idx' = IF idx = Len(tickers_sorted) THEN 1 ELSE idx + 1
               /\ pc' = IF idx = Len(tickers_sorted) THEN "write" ELSE "highlights"
               /\ exc' = exc
    /\ UNCHANGED <<arg, ret, cache, ticker_data, all_news, locals, files>>
    /\ UNCHANGED hydrate_vars

\* str.strip() of a url leaves something
RECURSIVE NonBlank(_)
NonBlank(str) ==
    IF str = <<>> THEN FALSE
    ELSE IF Head(str) # " " THEN TRUE
    ELSE NonBlank(Tail(str))

\* _build_prompt: the numbered sources are the rows that have a url
RECURSIVE PromptSources(_)
PromptSources(rows) ==
    IF rows = <<>> THEN <<>>
    ELSE IF NonBlank(Head(rows).url)
         THEN <<Head(rows)>> \o PromptSources(Tail(rows))
         ELSE PromptSources(Tail(rows))

\* with open(path, "w") as f: f.write(content): the file holds content
\* alone, whatever it held before
open_w_Append(dir, path, content) ==
    [p \in DOMAIN dir \cup {path} |->
        IF p # path THEN dir[p]
        ELSE IF p \in DOMAIN dir /\ p # "json" THEN dir[p] \o content ELSE content]

open_w(dir, path, content) ==
    [p \in DOMAIN dir \cup {path} |-> IF p = path THEN content ELSE dir[p]]

\* the Markdown, CSV and prompt files are written
WriteFiles ==
    /\ pc = "write"
    /\ files' = open_w(open_w(open_w(files, "md", lines), "csv", csv_rows),
                       "prompt", PromptSources(csv_rows))
    /\ pc' = "json"
    /\ UNCHANGED <<arg, ret, cache, idx, ticker_data, all_news, lines, csv_rows,
                   locals, exc>>
    /\ UNCHANGED hydrate_vars

\* sector_rotation of the JSON report, computed again from sector_map
SectorRotationJson ==
    IF locals.sector_map # <<>> THEN SectorItems(locals.sector_map) ELSE <<>>

\* top_themes of the JSON report
TopThemesJson == locals.themes

\* market_snapshot of the JSON report
MarketSnapshotJson ==
    IF locals.changes # <<>>
    THEN [breadth |-> [up |-> locals.up, down |-> locals.down],
          average_change |-> locals.avg_change,
          best |-> [ticker |-> ticker_data[locals.best].ticker,
                    change |-> ticker_data[locals.best].change],
          worst |-> [ticker |-> ticker_data[locals.worst].ticker,
                     change |-> ticker_data[locals.worst].change]]
    ELSE [note |-> "Not enough price data"]

HighlightJson(ticker) ==
    LET data == DictGet(ticker_data, ticker)
        shown == Take(data.news, 3)
    IN [ticker |-> ticker,
        change |-> data.change,
        start_price |-> data.start_price,
        end_price |-> data.end_price,
        sentiment |-> SentimentJson(ticker, data.news).val,
        headlines |-> [k \in 1..Len(shown) |-> CsvRow("ticker", ticker, shown[k])],
        risks_catalysts |-> [k \in 1..Len(shown) |->
                                [label |-> RiskCatalystLabel(shown[k].title),
                                 title |-> shown[k].title]]]

\* the JSON report is built, reading market news and the sentiment payload
\* from the cache again, and written
WriteJson ==
    /\ pc = "json"
    /\ LET market_items == IF arg.include_market_news THEN MarketItems ELSE Returned(<<>>)
           failed == {e \in {market_items.exc}
                            \cup {SentimentJson(tickers_sorted[k],
                                     DictGet(ticker_data, tickers_sorted[k]).news).exc :
                                  k \in 1..Len(tickers_sorted)} : e # "none"}
       IN IF failed # {}
          THEN /\ Raise(CHOOSE e \in failed : TRUE)
               /\ UNCHANGED files
          ELSE /\ files' = open_w(files, "json",
                    [market_snapshot |-> MarketSnapshotJson,
                     sector_rotation |-> SectorRotationJson,
                     top_themes |-> TopThemesJson,
                     market_news |-> [k \in 1..Len(Take(market_items.val, 5)) |->
                                         CsvRow("market", <<>>, market_items.val[k])],
                     ticker_highlights |-> [k \in 1..Len(tickers_sorted) |->
                                               HighlightJson(tickers_sorted[k])],
                     news_links |-> csv_rows])
               /\ pc' = "done"
               /\ exc' = exc
    /\ UNCHANGED <<arg, ret, cache, idx, ticker_data, all_news, lines, csv_rows, locals>>
    /\ UNCHANGED hydrate_vars

(***************************************************************************)
(* Inputs of the normalisation.                                            *)
(***************************************************************************)
S_x == <<"x">>
S_u == <<"u">>
T_beats == <<"A","c","m","e"," ","b","e","a","t","s"," ",
             "e","s","t","i","m","a","t","e","s">>

T1 == SecondsPerDay
T2 == 2 * SecondsPerDay

NewsStamps ==
    {StampAbsent, StampBad, StampNum(0), StampIso(0, FALSE),
     StampIso(T1, FALSE), StampIso(T1, TRUE)}

RawNewsItems ==
    {r \in [id : {Absent, <<>>, S_x},
            url : {Absent, S_x, S_u},
            title : {Absent, <<>>, T_beats},
            published_at : NewsStamps,
            publishedAt : {StampAbsent, StampIso(T2, FALSE)},
            source : {Absent},
            provider : {Absent}] :
        /\ Truthy(r.id) => r.title = Absent
        /\ Truthy(r.url) /\ ~Truthy(r.id) => r.title = T_beats
        /\ r.publishedAt # StampAbsent =>
              r.published_at = StampNum(0) /\ r.id = S_x /\ r.url = Absent
        /\ r.published_at = StampNum(0) => r.id = S_x /\ r.url = Absent
        /\ r.id = <<>> => r.published_at = StampAbsent
        /\ r.url = S_u => r.published_at \in {StampAbsent, StampIso(T1, FALSE)}}

RECURSIVE SeqsUpTo(_, _)
SeqsUpTo(S, n) ==
    IF n = 0 THEN {<<>>}
    ELSE LET shorter == SeqsUpTo(S, n - 1)
         IN shorter \cup {Append(s, x) : s \in {q \in shorter : Len(q) = n - 1}, x \in S}

RawNewsLists == SeqsUpTo(RawNewsItems, MaxItems)

\* the function-call specifications leave the digest build untouched
NoLocals ==
    [changes |-> <<>>, avg_change |-> [some |-> FALSE, n |-> 0, d |-> 1],
     up |-> 0, down |-> 0, best |-> 0, worst |-> 0, sector_map |-> <<>>,
     themes |-> <<>>]

\* no command line is involved in a direct call
NoCmd == [command |-> "none"]

HydrateIdle ==
    /\ cmd = NoCmd
    /\ workers = <<>>
    /\ events = {}
    /\ previous = <<>>
    /\ transcripts = <<>>

DigestIdle ==
    /\ HydrateIdle
    /\ cache = <<>>
    /\ idx = 0
    /\ ticker_data = <<>>
    /\ all_news = <<>>
    /\ lines = <<>>
    /\ csv_rows = <<>>
    /\ locals = NoLocals
    /\ files = <<>>
    /\ exc = "none"


(***************************************************************************)
(* Specification of the normalisation as a function call.                  *)
(***************************************************************************)
InitNormalize ==
    /\ pc = "call"
    /\ arg \in RawNewsLists
    /\ ret = NoResult
    /\ DigestIdle

NormalizeNews ==
    /\ pc = "call"
    /\ ret' = _normalize_news(arg)
    /\ pc' = "return"
    /\ UNCHANGED <<arg, digest_vars, hydrate_vars>>

NextNormalize == NormalizeNews

SpecNormalize == InitNormalize /\ [][NextNormalize]_vars

(***************************************************************************)
(* Properties of the normalisation.                                        *)
(***************************************************************************)
NormalizeReturned == pc = "return" /\ ret.exc = "none"

\* the deduplicated items in input order, before the sort
FirstOccurrences == DedupLoop(arg, {}, <<>>)

NoId(item) == ~Truthy(Get(item, "id"))
NoUrl(item) == ~Truthy(Get(item, "url"))

Parsed(x) == x.published_at.kind = "dt"

\* C1 (as claimed): the output of _normalize_news has no two items with the
\* same identity key (id or url or title), and its length is the number of
\* distinct identity keys of the input.
C1_UniqueKeys ==
    NormalizeReturned =>
        /\ \A i, j \in 1..Len(ret.val) :
              i # j => DedupKey(ret.val[i]) # DedupKey(ret.val[j])
        /\ Len(ret.val) = Cardinality({DedupKey(arg[i]) : i \in 1..Len(arg)})

\* C2 (as claimed): two items without id, with the same title and different
\* urls are deduplicated to one entry, the first of the input.
C2_SameTitleDifferentUrls ==
    /\ pc = "return" /\ Len(arg) = 2
    /\ NoId(arg[1]) /\ NoId(arg[2])
    /\ Truthy(Get(arg[1], "title")) /\ Get(arg[1], "title") = Get(arg[2], "title")
    /\ ~NoUrl(arg[1]) /\ ~NoUrl(arg[2]) /\ Get(arg[1], "url") # Get(arg[2], "url")
    => ret = Returned(<<NormalizedItem(arg[1])>>)

\* C2 (amended): two items without id and with the same title are both kept
\* when their urls differ (the url is the identity key before the title);
\* without id and without url they are deduplicated to one entry, the one
\* that comes first in the input.
C2_SameTitleDedup ==
    /\ pc = "return" /\ Len(arg) = 2
    /\ NoId(arg[1]) /\ NoId(arg[2])
    /\ Truthy(Get(arg[1], "title")) /\ Get(arg[1], "title") = Get(arg[2], "title")
    => /\ NoUrl(arg[1]) /\ NoUrl(arg[2])
            => ret = Returned(<<NormalizedItem(arg[1])>>)
       /\ ~NoUrl(arg[1]) /\ ~NoUrl(arg[2]) /\ Get(arg[1], "url") # Get(arg[2], "url")
            /\ ret.exc = "none"
            => Len(ret.val) = 2

C2_Witness ==
    /\ pc = "return" /\ Len(arg) = 2
    /\ NoId(arg[1]) /\ NoId(arg[2]) /\ NoUrl(arg[1]) /\ NoUrl(arg[2])
    /\ arg[1].title = T_beats /\ arg[2].title = T_beats
    /\ NormalizedItem(arg[1]) # NormalizedItem(arg[2])
    /\ ret.val = <<NormalizedItem(arg[1])>>

\* out is a rearrangement of list in which items that `same` relates keep
\* their relative order
StableRearrangement(out, list, same(_, _)) ==
    /\ Len(out) = Len(list)
    /\ \E p \in [1..Len(list) -> 1..Len(list)] :
          /\ \A i, j \in 1..Len(list) : i # j => p[i] # p[j]
          /\ \A i \in 1..Len(list) : out[i] = list[p[i]]
          /\ \A i, j \in 1..Len(list) :
                i < j /\ same(out[i], out[j]) => p[i] < p[j]

SameTimestamp(x, y) == x.published_at = y.published_at

SameSortKey(x, y) == SortKey(x).t = SortKey(y).t

\* C3 (as claimed): the output is ordered by parsed published_at
\* non-increasing, every item without a parsed timestamp comes after every
\* item with one, and items with equal timestamps keep their input order.
C3_SortedUnparsedLast ==
    NormalizeReturned =>
        /\ \A i, j \in 1..Len(ret.val) :
              i < j /\ Parsed(ret.val[i]) /\ Parsed(ret.val[j])
                 => ret.val[i].published_at.t >= ret.val[j].published_at.t
        /\ \A i, j \in 1..Len(ret.val) :
              ~Parsed(ret.val[i]) /\ Parsed(ret.val[j]) => j < i
        /\ StableRearrangement(ret.val, FirstOccurrences, SameTimestamp)

\* C3 (amended): the output is ordered non-increasing by the parsed
\* published_at, an item without a parsed timestamp counting as
\* datetime.min: it comes after every item whose parsed timestamp is later
\* than datetime.min, and items with equal sort keys (equal timestamps, or
\* datetime.min next to no timestamp) keep their input order.
C3_SortedBySentinel ==
    NormalizeReturned =>
        /\ \A i, j \in 1..Len(ret.val) :
              i < j => SortKey(ret.val[i]).t >= SortKey(ret.val[j]).t
        /\ \A i, j \in 1..Len(ret.val) :
              /\ ~Parsed(ret.val[i]) /\ Parsed(ret.val[j])
              /\ ret.val[j].published_at.t > datetime_min.t
              => j < i
        /\ StableRearrangement(ret.val, FirstOccurrences, SameSortKey)

\* an unparsed item first in the input stays before a later parsed one only
\* at the sentinel; here the sort moved a parsed item in front of it
C3_Witness ==
    /\ NormalizeReturned /\ Len(arg) = 2 /\ Len(ret.val) = 2
    /\ ~Parsed(NormalizedItem(arg[1])) /\ Parsed(NormalizedItem(arg[2]))
    /\ ret.val = <<NormalizedItem(arg[2]), NormalizedItem(arg[1])>>

(***************************************************************************)
(* Specification of the sentiment functions as function calls.             *)
(***************************************************************************)
T_misses == <<"A","c","m","e"," ","m","i","s","s","e","s"," ",
              "g","u","i","d","a","n","c","e",","," ",
              "s","h","a","r","e","s"," ","d","r","o","p">>
T_drop == <<"A","c","m","e"," ","m","i","s","s","e","s",","," ",
            "s","h","a","r","e","s"," ","d","r","o","p">>
T_up == <<"P","r","o","f","i","t"," ","U","P">>
T_plain == <<"A","c","m","e"," ","u","p","d","a","t","e">>

Headlines == {<<>>, T_beats, T_misses, T_drop, T_up, T_plain}

\* the reading of datetime.datetime.now()
Now == 40 * SecondsPerDay

SentimentStamps ==
    {NoneDT, DT(Now - 3 * SecondsPerDay, FALSE),
     DT(Now - 3 * SecondsPerDay + 1, FALSE), DT(Now - 30 * SecondsPerDay, FALSE),
     DT(Now + 1, FALSE), DT(Now, TRUE)}

SentimentNewsItems ==
    [id : {None},
     title : {T_beats, T_misses, T_drop},
     url : {<<>>},
     source : {<<>>},
     published_at : SentimentStamps,
     provider : {<<>>}]

SentimentArgs ==
    {[fn |-> "_headline_sentiment", title |-> h, news |-> <<>>, now |-> Now] :
        h \in Headlines}
    \cup
    {[fn |-> "_weighted_sentiment", title |-> <<>>, news |-> n, now |-> Now] :
        n \in SeqsUpTo(SentimentNewsItems, MaxNews)}

InitSentiment ==
    /\ pc = "call"
    /\ arg \in SentimentArgs
    /\ ret = NoResult
    /\ DigestIdle

HeadlineSentiment ==
    /\ pc = "call"
    /\ arg.fn = "_headline_sentiment"
    /\ ret' = Returned([polarity |-> _headline_sentiment(arg.title),
                        tag |-> RiskCatalystLabel(arg.title)])
    /\ pc' = "return"
    /\ UNCHANGED <<arg, digest_vars, hydrate_vars>>

WeightedSentiment ==
    /\ pc = "call"
    /\ arg.fn = "_weighted_sentiment"
    /\ ret' = _weighted_sentiment(arg.news, arg.now)
    /\ pc' = "return"
    /\ UNCHANGED <<arg, digest_vars, hydrate_vars>>

NextSentiment == HeadlineSentiment \/ WeightedSentiment

SpecSentiment == InitSentiment /\ [][NextSentiment]_vars

WeightedReturned ==
    pc = "return" /\ arg.fn = "_weighted_sentiment" /\ ret.exc = "none"

\* C5: the score returned by _weighted_sentiment lies in [-1, 1] for every
\* news sequence, and the empty sequence gives score 0.0 and label Neutral.
C5_ScoreBounded ==
    WeightedReturned =>
        /\ ret.val.score.d > 0
        /\ -ret.val.score.d <= ret.val.score.n
        /\ ret.val.score.n <= ret.val.score.d
        /\ arg.news = <<>> =>
              ret.val.score.n = 0 /\ ret.val.label = L_Neutral

\* a sequence mixing a future-dated, an old and an unparseable item whose
\* score reaches the bound 1
C5_Witness ==
    /\ WeightedReturned /\ Len(arg.news) = 3
    /\ \E i \in 1..3 : arg.news[i].published_at = NoneDT
    /\ \E i \in 1..3 : arg.news[i].published_at = DT(Now + 1, FALSE)
    /\ \E i \in 1..3 : arg.news[i].published_at = DT(Now - 30 * SecondsPerDay, FALSE)
    /\ ret.val.score.n = ret.val.score.d

\* C6 (as claimed): "Acme misses guidance, shares drop" has polarity -1 and
\* is tagged Risk.
C6_MissesGuidanceNegative ==
    pc = "return" /\ arg.fn = "_headline_sentiment" /\ arg.title = T_misses
        => ret.val.polarity = -1 /\ ret.val.tag = "Risk"

\* C6 (amended): "Acme misses guidance, shares drop" has polarity 0, because
\* "guidance" is a positive word next to the negative "misses" and "drop":
\* it is tagged Neutral and adds nothing to the weighted score sum; without
\* the word "guidance" the headline has polarity -1 and is tagged Risk.
C6_MissesGuidanceNeutral ==
    /\ pc = "return" /\ arg.fn = "_headline_sentiment" /\ arg.title = T_misses
          => ret.val.polarity = 0 /\ ret.val.tag = "Neutral"
    /\ pc = "return" /\ arg.fn = "_headline_sentiment" /\ arg.title = T_drop
          => ret.val.polarity = -1 /\ ret.val.tag = "Risk"
    /\ /\ WeightedReturned /\ arg.news # <<>>
       /\ \A i \in 1..Len(arg.news) : arg.news[i].title = T_misses
       => ret.val.score.n = 0 /\ ret.val.label = L_Neutral

C6_Witness ==
    /\ pc = "return" /\ arg.fn = "_headline_sentiment" /\ arg.title = T_misses
    /\ ret.val.polarity = 0
    /\ WordSet(arg.title) = {"acme", "misses", "guidance", "shares", "drop"}

(***************************************************************************)
(* Inputs of the digest build: the arguments and the cache contents.  The  *)
(* cache varies in one respect at a time: the price history, the news or   *)
(* the sentiment payloads.                                                 *)
(***************************************************************************)
Sym_bbb == <<"b","b","b">>
Sym_AAA == <<"A","A","A">>
Sym_Ccc == <<"C","c","c">>
Sym_Dd == <<"D","d">>

TickerPool == <<Sym_bbb, Sym_AAA, Sym_Ccc, Sym_Dd>>

\* the day of the digest and its last second
DigestDay == Now \div SecondsPerDay

WindowEnd == Now + EndOfDay

Hit(v) == [hit |-> TRUE, val |-> v]
Miss == [hit |-> FALSE, val |-> <<>>]

Bar(c) == [close |-> Num(c, 1)]
BarNoClose == [close |-> NoneNum]

PriceOptions ==
    {Miss, Hit(<<>>), Hit(<<Bar(100)>>),
     Hit(<<BarNoClose, Bar(105)>>), Hit(<<Bar(0), Bar(105)>>),
     Hit(<<Bar(100), BarNoClose>>), Hit(<<Bar(100), Bar(0)>>),
     Hit(<<Bar(100), Bar(100)>>), Hit(<<Bar(100), Bar(105)>>),
     Hit(<<Bar(105), Bar(100)>>), Hit(<<Bar(1), Bar(101)>>),
     Hit(<<Bar(1), Bar(100), Bar(105)>>), Hit(<<Bar(100), BarNoClose, Bar(105)>>),
     Hit(<<Bar(100), Bar(0), Bar(100)>>), Hit(<<Bar(105), Bar(100), Bar(100)>>)}

S_yahoo == <<"y","a","h","o","o">>
S_finnhub == <<"f","i","n","n","h","u","b">>
S_wire == <<"W","i","r","e">>

RawItem(id, title, stamp, provider) ==
    [id |-> id, url |-> <<"h",":">> \o id, title |-> title, published_at |-> stamp,
     publishedAt |-> StampAbsent, source |-> S_wire, provider |-> provider]

\* news around the bounds of the daily window of DigestDay
W_before == RawItem(<<"w","1">>, T_drop, StampIso(WindowEnd - Hours24 - 1, FALSE), S_yahoo)
W_first == RawItem(<<"w","2">>, T_beats, StampIso(WindowEnd - Hours24, FALSE), S_yahoo)
W_last == RawItem(<<"w","3">>, T_misses, StampIso(WindowEnd, FALSE), S_yahoo)
W_after == RawItem(<<"w","4">>, T_plain, StampIso(WindowEnd + 1, FALSE), S_yahoo)
W_undated == RawItem(<<"w","5">>, T_up, StampAbsent, S_yahoo)
W_aware == RawItem(<<"w","6">>, T_beats, StampIso(WindowEnd - 1, TRUE), S_yahoo)
F_last == RawItem(<<"w","3">>, T_plain, StampIso(WindowEnd - 2, FALSE), S_finnhub)
F_mid == RawItem(<<"f","1">>, T_drop, StampIso(Now, FALSE), S_finnhub)
M_in == RawItem(<<"m","1">>, T_up, StampIso(WindowEnd, FALSE), S_finnhub)
M_out == RawItem(<<"m","2">>, T_drop, StampIso(WindowEnd - Hours24 - 1, FALSE), S_finnhub)

WindowItems == {W_before, W_first, W_last, W_after, W_undated, W_aware}

\* no list, a single item or a pair of items
YahooNewsOptions == {Miss} \cup {Hit(list) : list \in SeqsUpTo(WindowItems, 2)}

FinnhubNewsOptions == {Miss, Hit(<<F_last, F_mid>>)}

\* six market news items inside the daily window, one more than a report shows
M_six ==
    [k \in 1..6 |->
        RawItem(<<"n", <<"1","2","3","4","5","6">>[k]>>, T_up,
                StampIso(WindowEnd - k, FALSE), S_finnhub)]

MarketNewsOptions == {Miss, Hit(<<M_out, M_in>>), Hit(<<M_out>>), Hit(M_six)}

Payload(label, sentiment, score) ==
    [type |-> "dict", label |-> label, sentiment |-> sentiment, score |-> score]

ScoreNum(n, d) == [kind |-> "num", n |-> n, d |-> d]
ScoreText == [kind |-> "text", n |-> 0, d |-> 1]

P_full == Payload(L_Positive, Absent, ScoreNum(7, 10))
P_sentiment == Payload(Absent, L_Negative, NoScore)
P_score_only == Payload(Absent, Absent, ScoreNum(1, 2))
P_empty == Payload(Absent, Absent, NoScore)
P_bad_score == Payload(L_Positive, Absent, ScoreText)
P_list == [type |-> "list", label |-> Absent, sentiment |-> Absent, score |-> NoScore]
P_other == Payload(L_Negative, Absent, ScoreNum(-2, 5))

SentimentLatestOptions ==
    {Miss, Hit(P_full), Hit(P_sentiment), Hit(P_score_only), Hit(P_empty),
     Hit(P_bad_score), Hit(P_list)}

SentimentOptions == {Miss, Hit(P_other), Hit(P_empty)}

Fund_tech ==
    [name |-> <<"A","c","m","e">>, sector |-> <<"T","e","c","h">>, industry |-> Absent]

\* the cache that holds the chosen option of every entry
CacheOf(T, fu, pr, yn, fh, sl, sp, mk) ==
    LET keys == {FundamentalsKey(t) : t \in {u \in T : fu[u].hit}}
                \cup {PricesKey(t) : t \in {u \in T : pr[u].hit}}
                \cup {YahooNewsKey(t) : t \in {u \in T : yn[u].hit}}
                \cup {FinnhubNewsKey(t) : t \in {u \in T : fh[u].hit}}
                \cup {SentimentLatestKey(t) : t \in {u \in T : sl[u].hit}}
                \cup {SentimentKey(t) : t \in {u \in T : sp[u].hit}}
                \cup (IF mk.hit THEN {MarketNewsKey} ELSE {})
    IN [k \in keys |->
           CASE k.prefix = "yahoo:fundamentals:" -> fu[k.ticker].val
             [] k.prefix = "yahoo:prices:" -> pr[k.ticker].val
             [] k.prefix = "yahoo:news:" -> yn[k.ticker].val
             [] k.prefix = "finnhub:news:" -> fh[k.ticker].val
             [] k.prefix = "finnhub:sentiment:" /\ k.suffix = ":latest" -> sl[k.ticker].val
             [] k.prefix = "finnhub:sentiment:" /\ k.suffix = "" -> sp[k.ticker].val
             [] OTHER -> mk.val]

\* only the first ticker of the sorted list has cached fundamentals
DefaultFund(T, first) == [t \in T |-> IF t = first THEN Hit(Fund_tech) ELSE Miss]

DefaultPrices(T) == [t \in T |-> Hit(<<Bar(100), Bar(105)>>)]

DefaultNews(T) == [t \in T |-> Hit(<<W_first, W_last>>)]

AllMiss(T) == [t \in T |-> Miss]

\* the first ticker takes every option, the others a few
Focus(T, first, options, others) ==
    {f \in [T -> options \cup others] : \A t \in T : t # first => f[t] \in others}

PriceCaches(T, first) ==
    {CacheOf(T, DefaultFund(T, first), pr, AllMiss(T), AllMiss(T), AllMiss(T),
             AllMiss(T), Miss) :
        pr \in Focus(T, first, PriceOptions,
                     {Miss, Hit(<<Bar(1), Bar(101)>>), Hit(<<Bar(100), Bar(100)>>),
                      Hit(<<Bar(105), Bar(100)>>)})}

\* the ticker news varies next to market news on both sides of the window,
\* the market news with the default ticker news
NewsCaches(T, first) ==
    {CacheOf(T, DefaultFund(T, first), DefaultPrices(T), yn, fh, AllMiss(T),
             AllMiss(T), Hit(<<M_out, M_in>>)) :
        yn \in Focus(T, first, YahooNewsOptions, {Miss, Hit(<<W_first, W_after>>)}),
        fh \in Focus(T, first, FinnhubNewsOptions, {Miss})}
    \cup
    {CacheOf(T, DefaultFund(T, first), DefaultPrices(T), DefaultNews(T), AllMiss(T),
             AllMiss(T), AllMiss(T), mk) : mk \in MarketNewsOptions}

SentimentCaches(T, first) ==
    {CacheOf(T, DefaultFund(T, first), DefaultPrices(T), yn, AllMiss(T), sl, sp, Miss) :
        yn \in Focus(T, first, {Miss, Hit(<<W_first, W_last>>), Hit(<<W_aware>>)},
                     {Hit(<<W_first>>)}),
        sl \in Focus(T, first, SentimentLatestOptions, {Miss, Hit(P_full)}),
        sp \in Focus(T, first, SentimentOptions, {Miss})}

Fund_energy ==
    [name |-> <<"O","i","l","c","o">>, sector |-> <<"E","n","e","r","g","y">>,
     industry |-> Absent]
Fund_nosector == [name |-> <<"A","c","m","e">>, sector |-> Absent, industry |-> Absent]
Fund_blank == [name |-> <<"A","c","m","e">>, sector |-> <<>>, industry |-> Absent]

\* fundamentals with the metrics of the test fixture: market cap, revenue,
\* EBITDA, net income, EPS, free cash flow, growth rates, debt to equity
Fund_full ==
    [name |-> <<"A","c","m","e">>, sector |-> <<"T","e","c","h">>,
     industry |-> <<"S","o","f","t","w","a","r","e">>,
     currency |-> <<"U","S","D">>,
     market_cap |-> Num(1500000000, 1), totalRevenue |-> Num(2000000000, 1),
     ebitda |-> Num(500000000, 1), netIncomeToCommon |-> Num(200000000, 1),
     trailingEps |-> Num(5, 2), freeCashflow |-> Num(300000000, 1),
     revenueGrowth |-> Num(18, 100), earningsGrowth |-> Num(22, 100),
     debtToEquity |-> Num(35, 100)]

\* the first ticker has the full fundamentals, prices and news
FundamentalsCaches(T, first) ==
    {CacheOf(T, [t \in T |-> IF t = first THEN Hit(Fund_full) ELSE Miss],
             DefaultPrices(T), DefaultNews(T), AllMiss(T), AllMiss(T), AllMiss(T), mk) :
        mk \in {Miss, Hit(<<M_in>>)}}

\* fundamentals and prices vary together: sectors with one or several
\* tickers, with equal or different averages, with or without a change
SectorCaches(T, first) ==
    {CacheOf(T, fu, pr, AllMiss(T), AllMiss(T), AllMiss(T), AllMiss(T), Miss) :
        fu \in Focus(T, first, {Hit(Fund_blank)},
                     {Miss, Hit(Fund_tech), Hit(Fund_energy), Hit(Fund_nosector)}),
        pr \in Focus(T, first, {Hit(<<Bar(105), Bar(100)>>)},
                     {Miss, Hit(<<Bar(100), Bar(105)>>)})}

TickerInputs == {SubSeq(TickerPool, 1, n) : n \in 1..MaxTickers}

DigestArgs ==
    {[fn |-> "generate_weekly_digest", tickers |-> t, include_market_news |-> m,
      digest_date |-> NoneNum, now |-> Now] : t \in TickerInputs, m \in BOOLEAN}
    \cup
    {[fn |-> "generate_daily_digest", tickers |-> t, include_market_news |-> m,
      digest_date |-> d, now |-> Now] :
        t \in TickerInputs, m \in BOOLEAN, d \in {NoneNum, Num(DigestDay, 1)}}

SymbolsOf(a) == {StrUpper(a.tickers[k]) : k \in 1..Len(a.tickers)}

DigestCaches(a) ==
    LET T == SymbolsOf(a)
        first == TickersSorted(a.tickers)[1]
    IN (IF a.include_market_news THEN PriceCaches(T, first) ELSE {})
       \cup NewsCaches(T, first)
       \cup (IF a.include_market_news THEN SentimentCaches(T, first) ELSE {})
       \cup (IF ~a.include_market_news /\ ~a.digest_date.some
             THEN SectorCaches(T, first) ELSE {})
       \cup FundamentalsCaches(T, first)

(***************************************************************************)
(* Specification of a digest build.                                        *)
(***************************************************************************)
InitDigest ==
    /\ pc = "load"
    /\ arg \in DigestArgs
    /\ ret = NoResult
    /\ cache \in DigestCaches(arg)
    /\ idx = 1
    /\ ticker_data = <<>>
    /\ all_news = <<>>
    /\ lines = <<>>
    /\ csv_rows = <<>>
    /\ locals = NoLocals
    /\ files = <<>>
    /\ exc = "none"
    /\ HydrateIdle

NextDigest ==
    \/ LoadTicker
    \/ MarketSnapshot
    \/ SectorRotation
    \/ TopThemes
    \/ MarketNews
    \/ TickerHighlight
    \/ WriteFiles
    \/ WriteJson

SpecDigest == InitDigest /\ [][NextDigest]_vars

(***************************************************************************)
(* The command line: load_market / load_portfolio, the commands digest,    *)
(* fetch-digest weekly and fetch-digest daily, and _ensure_cache.          *)
(*                                                                         *)
(* cmd.config is the YAML file read by the loader: [exists, islist, val],  *)
(* val the list under "tickers", an element None standing for a value that *)
(* is not a string.  A --date option is a record [form, day]: form         *)
(* "YYYY-MM-DD", "YYYYMMDD", "text" or "" (not given or empty).            *)
(***************************************************************************)
Whitespace == {" ", "\t", "\n"}

\* str.strip()
RECURSIVE LStrip(_)
LStrip(str) ==
    IF str # <<>> /\ Head(str) \in Whitespace THEN LStrip(Tail(str)) ELSE str

RECURSIVE RStrip(_)
RStrip(str) ==
    IF str # <<>> /\ str[Len(str)] \in Whitespace
    THEN RStrip(SubSeq(str, 1, Len(str) - 1))
    ELSE str

Strip(str) == RStrip(LStrip(str))

\* load_market() / load_portfolio(): the uppercased tickers or ValidationError
LoadTickers(config) ==
    IF ~config.exists \/ ~config.islist \/ config.val = <<>>
    THEN Raised("ValidationError")
    ELSE IF \E k \in 1..Len(config.val) :
               config.val[k] = None \/ Strip(config.val[k]) = <<>>
    THEN Raised("ValidationError")
    ELSE Returned([k \in 1..Len(config.val) |-> StrUpper(Strip(config.val[k]))])

\* tickers.split(',')
RECURSIVE Split(_, _, _)
Split(chars, part, parts) ==
    IF chars = <<>> THEN Append(parts, part)
    ELSE IF Head(chars) = ","
         THEN Split(Tail(chars), <<>>, Append(parts, part))
         ELSE Split(Tail(chars), Append(part, Head(chars)), parts)

RECURSIVE StripUpperNonBlank(_)
StripUpperNonBlank(parts) ==
    IF parts = <<>> THEN <<>>
    ELSE IF Strip(Head(parts)) # <<>>
         THEN <<StrUpper(Strip(Head(parts)))>> \o StripUpperNonBlank(Tail(parts))
         ELSE StripUpperNonBlank(Tail(parts))

\* [t.strip().upper() for t in tickers.split(',') if t.strip()]
ParseTickers(option) == StripUpperNonBlank(Split(option, <<>>, <<>>))

\* date.fromisoformat(value): the basic format YYYYMMDD is accepted from
\* Python 3.11 on and raises ValueError before
fromisoformat(value, python311) ==
    CASE value.form = "YYYY-MM-DD" -> Returned(Num(value.day, 1))
      [] value.form = "YYYYMMDD" ->
            IF python311 THEN Returned(Num(value.day, 1)) ELSE Raised("ValueError")
      [] OTHER -> Raised("ValueError")

DateGiven(value) == value.form # ""

\* day = None; if digest_date: day = date.fromisoformat(digest_date)
ParseDay(c) ==
    IF DateGiven(c.digest_date)
    THEN fromisoformat(c.digest_date, c.python311)
    ELSE Returned(NoneNum)

\* the checks of a command up to the first provider fetch or cache read:
\* the ticker list and the day, or the error raised
Validated(c) ==
    CASE c.command = "digest" ->
            IF c.workers < 1 THEN Raised("BadParameter")
            ELSE IF c.portfolio /\ c.digest_type # "weekly" THEN Raised("BadParameter")
            ELSE IF DateGiven(c.digest_date) /\ c.digest_type # "daily"
                 THEN Raised("BadParameter")
            ELSE IF ParseDay(c).exc # "none" THEN Raised("BadParameter")
            ELSE IF LoadTickers(c.config).exc # "none" THEN Raised("ValidationError")
            ELSE Returned([tickers |-> LoadTickers(c.config).val, day |-> ParseDay(c).val,
                           include_market_news |-> ~c.portfolio])
      [] c.command = "fetch-digest weekly" ->
            IF c.portfolio
            THEN IF LoadTickers(c.config).exc # "none" THEN Raised("ValidationError")
                 ELSE Returned([tickers |-> LoadTickers(c.config).val, day |-> NoneNum,
                                include_market_news |-> FALSE])
            ELSE IF c.tickers = <<>> \/ ParseTickers(c.tickers) = <<>>
                 THEN Raised("BadParameter")
                 ELSE Returned([tickers |-> ParseTickers(c.tickers), day |-> NoneNum,
                                include_market_news |-> TRUE])
      [] OTHER ->
            IF ParseTickers(c.tickers) = <<>> THEN Raised("BadParameter")
            ELSE IF ParseDay(c).exc # "none" THEN Raised("BadParameter")
            ELSE Returned([tickers |-> ParseTickers(c.tickers), day |-> ParseDay(c).val,
                           include_market_news |-> TRUE])

\* the digest generator a command calls
GeneratorOf(c) ==
    IF c.command = "fetch-digest weekly" \/ (c.command = "digest" /\ c.digest_type = "weekly")
    THEN "generate_weekly_digest"
    ELSE "generate_daily_digest"

NoArg ==
    [fn |-> "none", tickers |-> <<>>, include_market_news |-> FALSE,
     digest_date |-> NoneNum, now |-> Now]

\* the call of generate_weekly_digest / generate_daily_digest
CallGenerator ==
    /\ pc' = "load"
    /\ arg' = [fn |-> GeneratorOf(cmd), tickers |-> Validated(cmd).val.tickers,
               include_market_news |-> Validated(cmd).val.include_market_news,
               digest_date |-> Validated(cmd).val.day, now |-> Now]

\* a command from its start to the submission of the hydration workers
\* (digest) or to the call of the generator (fetch-digest)
Command ==
    /\ pc = "cli"
    /\ LET v == Validated(cmd)
       IN IF v.exc # "none"
          THEN /\ pc' = "rejected"
               /\ exc' = v.exc
               /\ UNCHANGED <<arg, workers>>
          ELSE IF cmd.command = "digest"
          THEN /\ pc' = "hydrate"
               /\ workers' = [k \in 1..Len(v.val.tickers) |->
                                 [ticker |-> v.val.tickers[k], step |-> "queued", datum |-> 1]]
               /\ UNCHANGED <<arg, exc>>
          ELSE /\ CallGenerator
               /\ UNCHANGED <<workers, exc>>
    /\ UNCHANGED <<ret, cache, idx, ticker_data, all_news, lines, csv_rows, locals,
                   files, cmd, events, previous, transcripts>>


(***************************************************************************)
(* _ensure_cache: one _ensure_ticker worker per ticker on a thread pool of *)
(* cmd.workers threads, then the market news on the calling thread.        *)
(* workers[k] is the future of the k-th submitted ticker: its step is      *)
(* "queued", "check" (about to read the cache for datum), "fetch" (the     *)
(* read was a miss, about to call the provider and put), "done" or         *)
(* "failed" (the future holds an exception).  events records the provider  *)
(* calls and the cache writes, the calling thread being worker 0.          *)
(***************************************************************************)
Data == <<"fundamentals", "prices", "yahoo_news", "finnhub_news">>

\* key_fund, key_price, key_news, key_finnhub
HydrateKey(ticker, datum) ==
    CASE datum = 1 -> FundamentalsKey(ticker)
      [] datum = 2 -> PricesKey(ticker)
      [] datum = 3 -> YahooNewsKey(ticker)
      [] OTHER -> FinnhubNewsKey(ticker)

\* what a provider call that succeeds hands to cache.put
Fetched(datum) ==
    CASE datum = 1 -> Fund_tech
      [] datum = 2 -> <<Bar(100), Bar(105)>>
      [] datum = 3 -> <<W_first>>
      [] OTHER -> <<F_mid>>

\* the truth value of cache.get(key)
CacheHit(key) ==
    /\ key \in DOMAIN cache
    /\ cache[key] # (IF key.prefix \in {"yahoo:fundamentals:", "yahoo:financials:"}
                     THEN EmptyDict ELSE <<>>)

\* cache.put(key, value)
CachePut(key, value) ==
    [k \in DOMAIN cache \cup {key} |-> IF k = key THEN value ELSE cache[k]]

\* the Finnhub company news call is the one inside try/except
Caught(datum) == datum = 4

Finished(w) == w.step \in {"done", "failed"}

Running(w) == w.step \in {"check", "fetch"}

\* the worker after datum: its next datum, or its return
Advance(w) ==
    IF w.datum = Len(Data)
    THEN [w EXCEPT !.step = "done"]
    ELSE [w EXCEPT !.step = "check", !.datum = w.datum + 1]

\* a pool thread takes the oldest queued work item
WorkerStart(k) ==
    /\ pc = "hydrate"
    /\ workers[k].step = "queued"
    /\ \A j \in 1..(k - 1) : workers[j].step # "queued"
    /\ Cardinality({j \in DOMAIN workers : Running(workers[j])}) < cmd.workers
    /\ workers' = [workers EXCEPT ![k].step = "check"]
    /\ UNCHANGED <<pc, arg, ret, digest_vars, cmd, events, previous, transcripts>>

\* if not cache.get(key)
WorkerCheck(k) ==
    /\ pc = "hydrate"
    /\ workers[k].step = "check"
    /\ workers' = [workers EXCEPT ![k] =
                      IF CacheHit(HydrateKey(workers[k].ticker, workers[k].datum))
                      THEN Advance(workers[k])
                      ELSE [workers[k] EXCEPT !.step = "fetch"]]
    /\ UNCHANGED <<pc, arg, ret, digest_vars, cmd, events, previous, transcripts>>

\* data = provider.fetch_...(ticker); cache.put(key, data)
WorkerFetch(k) ==
    /\ pc = "hydrate"
    /\ workers[k].step = "fetch"
    /\ LET w == workers[k]
           key == HydrateKey(w.ticker, w.datum)
           call == [op |-> "fetch", worker |-> k, key |-> key]
       IN \/ /\ cache' = CachePut(key, Fetched(w.datum))
             /\ events' = events \cup {call, [op |-> "put", worker |-> k, key |-> key]}
             /\ workers' = [workers EXCEPT ![k] = Advance(w)]
          \/ /\ events' = events \cup {call, [op |-> "error", worker |-> k, key |-> key]}
             /\ workers' = [workers EXCEPT ![k] =
                               IF Caught(w.datum) THEN Advance(w)
                               ELSE [w EXCEPT !.step = "failed"]]
             /\ cache' = cache
    /\ UNCHANGED <<pc, arg, ret, idx, ticker_data, all_news, lines, csv_rows, locals,
                   files, exc, cmd, previous, transcripts>>

\* every future has a result or an exception
AllWorkersFinished_AnyFinished ==
    \E k \in DOMAIN workers : Finished(workers[k])

AllWorkersFinished ==
    \A k \in DOMAIN workers : Finished(workers[k])

\* the end of the with block and of the as_completed loop: fut.result()
\* re-raises the exception of a failed worker
Join ==
    /\ pc = "hydrate"
    /\ AllWorkersFinished
    /\ IF \E k \in DOMAIN workers : workers[k].step = "failed"
       THEN /\ pc' = "raised"
            /\ exc' = "ProviderError"
            /\ arg' = arg
       ELSE IF Validated(cmd).val.include_market_news
       THEN /\ pc' = "market"
            /\ UNCHANGED <<arg, exc>>
       ELSE /\ CallGenerator
            /\ exc' = exc
    /\ UNCHANGED <<ret, cache, idx, ticker_data, all_news, lines, csv_rows, locals,
                   files, hydrate_vars>>

\* if include_market_news: the market news, every exception caught
MarketHydrate ==
    /\ pc = "market"
    /\ LET call == [op |-> "fetch", worker |-> 0, key |-> MarketNewsKey]
       IN IF CacheHit(MarketNewsKey)
          THEN UNCHANGED <<cache, events>>
          ELSE \/ /\ cache' = CachePut(MarketNewsKey, <<M_in>>)
                  /\ events' = events \cup
                        {call, [op |-> "put", worker |-> 0, key |-> MarketNewsKey]}
               \/ /\ events' = events \cup
                        {call, [op |-> "error", worker |-> 0, key |-> MarketNewsKey]}
                  /\ cache' = cache
    /\ CallGenerator
    /\ UNCHANGED <<ret, idx, ticker_data, all_news, lines, csv_rows, locals, files, exc,
                   cmd, workers, previous, transcripts>>


(***************************************************************************)
(* Specification of the commands.                                          *)
(***************************************************************************)
NoDate == [form |-> "", day |-> 0]
DateOptions ==
    {NoDate, [form |-> "YYYY-MM-DD", day |-> DigestDay],
     [form |-> "YYYYMMDD", day |-> DigestDay], [form |-> "text", day |-> 0]}

File(val) == [exists |-> TRUE, islist |-> TRUE, val |-> val]
NoFile == [exists |-> FALSE, islist |-> FALSE, val |-> <<>>]
File_one == File(<<<<"a","a","a">>>>)
File_two == File(<<<<"b","b","b">>, <<" ","a","a","a">>>>)
File_twice == File(<<<<"a","a","a">>, <<"A","A","A"," ">>>>)
Files ==
    {NoFile, [exists |-> TRUE, islist |-> FALSE, val |-> <<>>], File(<<>>),
     File(<<<<"a","a","a">>, None>>), File(<<<<"a","a","a">>, <<" ">>>>),
     File_one, File_two, File_twice}

Option_two == <<"a","a","a",","," ","b","b","b">>
TickerOptions == {<<>>, <<",", " ">>, <<"a","a","a">>, Option_two}

Cmd(command, digest_type, digest_date, portfolio, n, config, tickers, python311) ==
    [command |-> command, digest_type |-> digest_type, digest_date |-> digest_date,
     portfolio |-> portfolio, workers |-> n, config |-> config, tickers |-> tickers,
     python311 |-> python311]

\* every option in turn takes all its values, the others staying valid
Commands ==
    {Cmd("digest", "weekly", NoDate, p, n, File_two, <<>>, TRUE) :
        p \in BOOLEAN, n \in 0..2}
    \cup {Cmd("digest", "weekly", NoDate, FALSE, 2, f, <<>>, TRUE) : f \in Files}
    \cup {Cmd("digest", t, d, p, 1, File_one, <<>>, v) :
            t \in {"weekly", "daily"}, d \in DateOptions, p \in BOOLEAN, v \in BOOLEAN}
    \cup {Cmd("fetch-digest weekly", "weekly", NoDate, p, 1, f, o, TRUE) :
            p \in BOOLEAN, f \in {File(<<>>), File_one}, o \in TickerOptions}
    \cup {Cmd("fetch-digest daily", "daily", d, FALSE, 1, NoFile, o, v) :
            d \in DateOptions, o \in TickerOptions \ {<<>>}, v \in BOOLEAN}

AAA == <<"A","A","A">>

\* nothing cached, every datum of AAA cached, a falsy entry for AAA
CommandCaches ==
    {<<>>,
     CacheOf({AAA}, [t \in {AAA} |-> Hit(Fund_energy)],
             [t \in {AAA} |-> Hit(<<Bar(100), Bar(100)>>)],
             [t \in {AAA} |-> Hit(<<W_last>>)], [t \in {AAA} |-> Hit(<<F_mid>>)],
             AllMiss({AAA}), AllMiss({AAA}), Hit(<<M_out>>)),
     CacheOf({AAA}, [t \in {AAA} |-> Hit(Fund_energy)],
             [t \in {AAA} |-> Hit(<<>>)],
             [t \in {AAA} |-> Hit(<<W_last>>)], AllMiss({AAA}),
             AllMiss({AAA}), AllMiss({AAA}), Miss)}

InitHydrate ==
    /\ pc = "cli"
    /\ cmd \in Commands
    /\ cache \in CommandCaches
    /\ arg = NoArg
    /\ ret = NoResult
    /\ idx = 1
    /\ ticker_data = <<>>
    /\ all_news = <<>>
    /\ lines = <<>>
    /\ csv_rows = <<>>
    /\ locals = NoLocals
    /\ files = <<>>
    /\ exc = "none"
    /\ workers = <<>>
    /\ events = {}
    /\ previous = <<>>
    /\ transcripts = <<>>

NextHydrate ==
    \/ Command
    \/ \E k \in DOMAIN workers : WorkerStart(k)
    \/ \E k \in DOMAIN workers : WorkerCheck(k)
    \/ \E k \in DOMAIN workers : WorkerFetch(k)
    \/ Join
    \/ MarketHydrate
    \/ NextDigest

SpecHydrate == InitHydrate /\ [][NextHydrate]_vars


(***************************************************************************)
(* Specification of a digest build invoked twice: same arguments, same     *)
(* clock reading (arg.now), the cache untouched in between.                *)
(***************************************************************************)
\* the second invocation of the generator: every local starts afresh, the
\* files of the first invocation are still in out_dir
Rerun ==
    /\ pc = "done"
    /\ previous = <<>>
    /\ previous' = files
    /\ pc' = "load"
    /\ idx' = 1
    /\ ticker_data' = <<>>
    /\ all_news' = <<>>
    /\ lines' = <<>>
    /\ csv_rows' = <<>>
    /\ locals' = NoLocals
    /\ UNCHANGED <<arg, ret, cache, files, exc, cmd, workers, events, transcripts>>

RerunArgs == {a \in DigestArgs : a.include_market_news}

RerunCaches(a) ==
    LET T == SymbolsOf(a)
        first == TickersSorted(a.tickers)[1]
    IN SentimentCaches(T, first)
       \cup {CacheOf(T, DefaultFund(T, first), DefaultPrices(T), DefaultNews(T),
                     AllMiss(T), AllMiss(T), AllMiss(T), mk) : mk \in MarketNewsOptions}

InitRerun ==
    /\ pc = "load"
    /\ arg \in RerunArgs
    /\ ret = NoResult
    /\ cache \in RerunCaches(arg)
    /\ idx = 1
    /\ ticker_data = <<>>
    /\ all_news = <<>>
    /\ lines = <<>>
    /\ csv_rows = <<>>
    /\ locals = NoLocals
    /\ files = <<>>
    /\ exc = "none"
    /\ HydrateIdle

NextRerun ==
    \/ NextDigest
    \/ Rerun

SpecRerun == InitRerun /\ [][NextRerun]_vars

(***************************************************************************)
(* Properties of the digest build.                                         *)
(***************************************************************************)
Daily == arg.fn = "generate_daily_digest"

\* the records of ticker_data filled so far
Loaded == {ticker_data[k] : k \in 1..Len(ticker_data)}

\* the merged news of a ticker, before any date filter
MergedNews(ticker) ==
    _normalize_news(CacheGetList(YahooNewsKey(ticker))
                    \o CacheGetList(FinnhubNewsKey(ticker))).val

Elems(list) == {list[k] : k \in 1..Len(list)}

\* (D 23:59:59 - 24h) <= t <= D 23:59:59 for a parsed, naive timestamp
InDayWindow(dt) ==
    /\ dt.kind \in {"dt", "iso"}
    /\ ~dt.aware
    /\ arg.digest_date.n * 86400 + 86399 - 86400 <= dt.t
    /\ dt.t <= arg.digest_date.n * 86400 + 86399

HeadlineLines == {l \in Elems(lines) : l.kind \in {"headline", "market_headline"}}

\* C4: in the daily digest for a target date D the filter keeps exactly the
\* items with (D 23:59:59 - 24h) <= t <= D 23:59:59, so every ticker or
\* market headline of the Markdown and every CSV row lies in that window.
C4_DailyWindow ==
    Daily /\ arg.digest_date.some =>
        /\ \A data \in Loaded :
              /\ Elems(data.news) =
                    {item \in Elems(MergedNews(data.ticker)) : InDayWindow(item.published_at)}
              /\ \A j, k \in 1..Len(data.news) : j # k => data.news[j] # data.news[k]
        /\ \A row \in Elems(csv_rows) : InDayWindow(row.published_at)
        /\ \A l \in HeadlineLines :
              \E row \in Elems(csv_rows) :
                 /\ row.url = l.url /\ row.title = l.title /\ row.ticker = l.ticker
                 /\ InDayWindow(row.published_at)

\* a daily build whose first ticker has one headline one second after the
\* window and one on its last second, and whose market news has one item one
\* second before the window and one on its last second
C4_Witness ==
    /\ Daily /\ arg.digest_date.some /\ pc = "done"
    /\ CacheGetList(YahooNewsKey(Sym_AAA)) = <<W_after, W_last>>
    /\ CacheGetList(MarketNewsKey) = <<M_out, M_in>>
    /\ {row.url : row \in Elems(files.csv)} \cap {W_after.url, W_last.url, M_out.url, M_in.url}
          = {W_last.url, M_in.url}
    /\ \E l \in HeadlineLines : l.url = W_last.url
    /\ \E data \in Loaded :
          \E item \in Elems(data.news) :
             item.published_at.t = arg.digest_date.n * 86400 + 86399 - 86400

\* the sentiment line of a ticker in the Markdown written so far
SentimentLines(ticker) ==
    {l \in Elems(lines) : l.kind = "sentiment" /\ l.ticker = ticker}

\* the row of the ticker's finnhub:sentiment key: the :latest one if there
\* is one, else the plain one
CachedPayload(ticker) ==
    IF SentimentLatestKey(ticker) \in DOMAIN cache
    THEN cache[SentimentLatestKey(ticker)]
    ELSE CacheGetPayload(SentimentKey(ticker))

ClaimedLabel(p) ==
    IF p.label = Absent /\ p.sentiment = Absent THEN L_Unknown ELSE PayloadLabel(p)

HighlightsJson == Elems(files.json.ticker_highlights)

\* C7 (as claimed): a ticker whose cached sentiment payload is a map is
\* reported with that payload's label and score and source Finnhub, in the
\* Markdown and in the JSON; every other ticker with source weighted.
C7_SentimentSource ==
    pc = "done" =>
        \A data \in Loaded :
           LET p == CachedPayload(data.ticker)
           IN /\ \A l \in SentimentLines(data.ticker) :
                    IF p.type = "dict"
                    THEN l.source = "Finnhub" /\ l.label = ClaimedLabel(p)
                    ELSE l.source = "weighted"
              /\ \A h \in HighlightsJson :
                    h.ticker = data.ticker =>
                       IF p.type = "dict"
                       THEN /\ h.sentiment.source = "finnhub"
                            /\ h.sentiment.label = ClaimedLabel(p)
                            /\ h.sentiment.score = p.score
                       ELSE h.sentiment.source = "weighted"

\* the start close a variant uses: the first entry in the weekly digest, the
\* second-to-last in the daily one
StartClose(data) ==
    IF Weekly THEN data.prices[1].close ELSE data.prices[Len(data.prices) - 1].close

EndClose(data) == data.prices[Len(data.prices)].close

\* change = (end - start) / start * 100, as an equation between fractions
IsPercentChange(change, start, end) ==
    change.n * start.n * start.d * end.d
        = (end.n * start.d - start.n * end.d) * 100 * start.d * change.d

\* C8 (as claimed): the change is absent exactly when fewer than two price
\* entries exist or the start close is missing or zero, and else equals
\* (end - start) / start * 100.
C8_ChangeAbsentIffNoStart ==
    \A data \in Loaded :
       IF Len(data.prices) < 2 \/ ~StartClose(data).some \/ StartClose(data).n = 0
       THEN ~data.change.some
       ELSE /\ data.change.some
            /\ IsPercentChange(data.change, StartClose(data), EndClose(data))

\* C8 (amended): the change is absent exactly when fewer than two price
\* entries exist, the start close is missing or zero, or the end close is
\* missing; else it equals (end - start) / start * 100 with the closes of
\* the first and last entries (weekly) or of the second-to-last and last
\* entries (daily).
C8_ChangeFormula ==
    \A data \in Loaded :
       IF \/ Len(data.prices) < 2
          \/ ~StartClose(data).some \/ StartClose(data).n = 0
          \/ ~EndClose(data).some
       THEN ~data.change.some
       ELSE /\ data.change.some
            /\ IsPercentChange(data.change, StartClose(data), EndClose(data))
            /\ data.prices = <<Bar(100), Bar(105)>> => data.change = Num(5, 1)

\* a daily build over closes 1, 100, 105: the change is 5 and not 10400
C8_Witness ==
    /\ Daily
    /\ \E data \in Loaded :
          /\ data.prices = <<Bar(1), Bar(100), Bar(105)>>
          /\ data.change.some
          /\ NumEq(data.change, Num(5, 1))

\* the defined changes, by position in ticker_data
Defined == {k \in 1..Len(ticker_data) : ticker_data[k].change.some}

RECURSIVE SumOver(_)
SumOver(K) ==
    IF K = {} THEN Num(0, 1)
    ELSE LET k == CHOOSE x \in K : TRUE
         IN NumAdd(ticker_data[k].change, SumOver(K \ {k}))

SnapshotLines(kinds) == {l \in Elems(lines) : l.kind \in kinds}

SnapshotRendered == pc \notin {"load", "snapshot"} /\ lines # <<>>

\* C9: with at least one defined change the snapshot reports up = number
\* of defined changes >= 0, down = number of defined changes < 0 and the
\* mean of the defined changes; with none it consists of the note only.
C9_Breadth ==
    SnapshotRendered =>
        /\ Defined # {} =>
              /\ \E l \in SnapshotLines({"breadth"}) :
                    /\ l.up = Cardinality({k \in Defined : ticker_data[k].change.n >= 0})
                    /\ l.down = Cardinality({k \in Defined : ticker_data[k].change.n < 0})
                    /\ l.up + l.down = Cardinality(Defined)
              /\ \E l \in SnapshotLines({"average"}) :
                    NumEq(Num(l.value.n, l.value.d), Num(SumOver(Defined).n,
                          SumOver(Defined).d * Cardinality(Defined)))
              /\ SnapshotLines({"snapshot_note"}) = {}
              /\ "json" \in DOMAIN files =>
                    /\ files.json.market_snapshot.breadth.up
                          = Cardinality({k \in Defined : ticker_data[k].change.n >= 0})
                    /\ files.json.market_snapshot.breadth.down
                          = Cardinality({k \in Defined : ticker_data[k].change.n < 0})
        /\ Defined = {} =>
              /\ SnapshotLines({"snapshot_note"}) # {}
              /\ SnapshotLines({"breadth", "average", "best", "worst"}) = {}
              /\ "json" \in DOMAIN files =>
                    DOMAIN files.json.market_snapshot = {"note"}

\* a finished build with one ticker unchanged, counted up, and one ticker
\* down
C9_Witness ==
    /\ pc = "done" /\ Cardinality(Defined) = 2
    /\ \E k \in Defined : ticker_data[k].change.n = 0
    /\ \E k \in Defined : ticker_data[k].change.n < 0
    /\ \E l \in SnapshotLines({"breadth"}) : l.up = 1 /\ l.down = 1

\* C10 (as claimed): when the snapshot has numeric fields, best is the
\* first ticker in ascending order whose defined change is the maximum of
\* the defined changes, and worst the first whose defined change is the
\* minimum.
C10_BestWorst ==
    pc \notin {"load", "snapshot"} /\ Defined # {} =>
        /\ locals.best \in Defined
        /\ \A k \in Defined :
              ~NumLess(ticker_data[locals.best].change, ticker_data[k].change)
        /\ \A k \in Defined :
              NumEq(ticker_data[k].change, ticker_data[locals.best].change)
                 => locals.best <= k
        /\ locals.worst \in Defined
        /\ \A k \in Defined :
              ~NumLess(ticker_data[k].change, ticker_data[locals.worst].change)
        /\ \A k \in Defined :
              NumEq(ticker_data[k].change, ticker_data[locals.worst].change)
                 => locals.worst <= k

\* the sector lines of the Markdown written so far, in order
SectorLines == SelectSeq(lines, LAMBDA l : l.kind = "sector")

\* the sector a ticker is grouped under: "Unknown" without cached
\* fundamentals or without a sector in them
GroupOf(ticker) ==
    IF FundamentalsKey(ticker) \notin DOMAIN cache THEN <<"U","n","k","n","o","w","n">>
    ELSE IF cache[FundamentalsKey(ticker)].sector \in {Absent, None, <<>>}
         THEN <<"U","n","k","n","o","w","n">>
    ELSE cache[FundamentalsKey(ticker)].sector

Members(sector) == {k \in Defined : GroupOf(ticker_data[k].ticker) = sector}

SectionRendered(name) == \E l \in Elems(lines) : l.kind = "section" /\ l.name = name

SectorRendered == SectionRendered("Sector Rotation")

\* C11: the sector rotation lists exactly the sectors with at least one
\* defined change, each once and with the mean of its tickers' defined
\* changes, tickers without fundamentals or sector under "Unknown", ordered
\* by average descending and then by sector name ascending; the JSON report
\* lists the same entries.
C11_SectorRotation ==
    SectorRendered =>
        LET L == SectorLines
        IN /\ {L[k].sector : k \in 1..Len(L)}
                 = {GroupOf(ticker_data[k].ticker) : k \in Defined}
           /\ \A j, k \in 1..Len(L) : j # k => L[j].sector # L[k].sector
           /\ \A k \in 1..Len(L) :
                 NumEq(L[k].value,
                       Num(SumOver(Members(L[k].sector)).n,
                           SumOver(Members(L[k].sector)).d
                              * Cardinality(Members(L[k].sector))))
           /\ \A j, k \in 1..Len(L) :
                 j < k => \/ NumLess(L[k].value, L[j].value)
                          \/ /\ NumEq(L[j].value, L[k].value)
                             /\ StrLess(L[j].sector, L[k].sector)
           /\ Defined = {} => \E l \in Elems(lines) : l.kind = "sector_note"
           /\ "json" \in DOMAIN files =>
                 /\ Len(files.json.sector_rotation) = Len(L)
                 /\ \A k \in 1..Len(L) :
                       /\ files.json.sector_rotation[k].sector = L[k].sector
                       /\ files.json.sector_rotation[k].average_change = L[k].value

\* a finished build of two tickers with the same change, one in sector
\* Tech and one without cached fundamentals: Tech before Unknown
C11_Witness ==
    /\ pc = "done" /\ Len(SectorLines) = 2
    /\ SectorLines[1].sector = <<"T","e","c","h">>
    /\ SectorLines[2].sector = <<"U","n","k","n","o","w","n">>
    /\ NumEq(SectorLines[1].value, SectorLines[2].value)
    /\ \E k \in Defined : FundamentalsKey(ticker_data[k].ticker) \notin DOMAIN cache

(***************************************************************************)
(* Specification of _extract_themes as a function call.                    *)
(***************************************************************************)
T_short == <<"A","I"," ","a","t"," ","Q","1">>
T_stop == <<"T","h","e"," ","t","h","e"," ","s","t","o","c","k","s">>
T_long == <<"R","a","t","e","s",","," ","r","a","t","e","s",":"," ","o","i","l"," ",
            "g","o","l","d"," ","b","a","n","k","s"," ","c","h","i","p","s"," ",
            "c","l","o","u","d","9">>

ThemeTitles == {<<>>, None, T_beats, T_misses, T_up, T_short, T_stop, T_long}

ThemeLimits == {0, 1, 2, DefaultLimit}

ThemeArgs ==
    {[fn |-> "_extract_themes", news |-> n, limit |-> l] :
        n \in SeqsUpTo([title : ThemeTitles], MaxTitles), l \in ThemeLimits}

InitThemes ==
    /\ pc = "call"
    /\ arg \in ThemeArgs
    /\ ret = NoResult
    /\ DigestIdle

ExtractThemes ==
    /\ pc = "call"
    /\ arg.fn = "_extract_themes"
    /\ ret' = _extract_themes(arg.news, arg.limit)
    /\ pc' = "return"
    /\ UNCHANGED <<arg, digest_vars, hydrate_vars>>

NextThemes == ExtractThemes

SpecThemes == InitThemes /\ [][NextThemes]_vars

ThemesReturned == pc = "return" /\ arg.fn = "_extract_themes" /\ ret.exc = "none"

\* the positions (headline, token) at which a word occurs in the input
Occurrences(word) ==
    {<<h, t>> \in (1..Len(arg.news)) \X (1..40) :
        LET tokens == FindTokens(arg.news[h].title, <<>>, <<>>)
        IN t <= Len(tokens) /\ tokens[t] = word}

\* the words of the input headlines
InputWords ==
    UNION {Elems(FindTokens(arg.news[h].title, <<>>, <<>>)) : h \in 1..Len(arg.news)}

Qualifying == {w \in InputWords : Len(w) >= 3 /\ Str(w) \notin _STOP_WORDS}

\* C12: every returned term has at least 3 characters, is no stop word and
\* is counted with its number of occurrences over all headlines; there are
\* at most limit terms, and none when no headline token qualifies.
C12_Themes ==
    ThemesReturned =>
        /\ \A k \in 1..Len(ret.val) :
              /\ Len(ret.val[k].word) >= 3
              /\ Str(ret.val[k].word) \notin _STOP_WORDS
              /\ ret.val[k].count = Cardinality(Occurrences(ret.val[k].word))
              /\ ret.val[k].count >= 1
        /\ Len(ret.val) <= arg.limit
        /\ Qualifying = {} => ret.val = <<>>

\* more than six qualifying words, one of them twice in one headline: the
\* result has exactly the default six terms, the repeated word first
C12_Witness ==
    /\ ThemesReturned /\ arg.limit = 6
    /\ Cardinality(Qualifying) > 6
    /\ Len(ret.val) = 6
    /\ ret.val[1] = [word |-> <<"r","a","t","e","s">>, count |-> 2]
    /\ \E h \in 1..Len(arg.news) : arg.news[h].title = T_up

\* C13 (as claimed): for any cache contents a digest build never raises,
\* and a finished build has written all four artifacts.
C13_NeverRaises ==
    /\ pc # "raised"
    /\ exc = "none"
    /\ pc = "done" => DOMAIN files = {"md", "csv", "prompt", "json"}

\* C14 (as claimed): for any mix of published_at representations within
\* one list _normalize_news never fails, and every first occurrence whose
\* timestamp cannot be parsed is kept in the output.
C14_NormalizeNeverFails ==
    pc = "return" /\ arg \in RawNewsLists =>
        /\ ret.exc = "none"
        /\ Len(ret.val) = Len(FirstOccurrences)

(***************************************************************************)
(* Properties of the commands.                                             *)
(***************************************************************************)
Fetches(k) == {e \in events : e.op = "fetch" /\ e.worker = k}
Errors(k) == {e \in events : e.op = "error" /\ e.worker = k}
Puts(k) == {e \in events : e.op = "put" /\ e.worker = k}

\* C15: during hydration a provider error, whichever datum (fundamentals,
\* prices, Yahoo news, Finnhub news) was being fetched, is caught inside the
\* worker of that ticker, which never ends with an exception; and once
\* hydration is over every worker has run to its end.
C15_ErrorCaughtPerTicker ==
    /\ \A k \in DOMAIN workers : workers[k].step # "failed"
    /\ pc \notin {"cli", "hydrate", "rejected"} =>
           \A k \in DOMAIN workers : workers[k].step = "done"

\* C16: a ProviderError of a hydration worker does not leave _ensure_cache:
\* the command never ends with it, and after a worker met a provider error
\* the digest is still generated once hydration is over.
C16_ProviderErrorSkipped ==
    /\ exc # "ProviderError"
    /\ (\E k \in DOMAIN workers : Errors(k) # {}) => pc # "raised"

\* the generator is running or has run: its first cache read happens in the
\* step taken at "load"
Generating ==
    pc \in {"load", "snapshot", "sector", "themes", "market_news", "highlights",
            "write", "json", "done"}

\* C17: in the digest command the generator starts only after every
\* hydration worker has finished, with or without an exception: while the
\* generator reads the cache no worker is queued or inside a fetch.
C17_JoinBarrier ==
    (cmd.command = "digest" /\ (Generating \/ pc = "market")) =>
        /\ workers # <<>>
        /\ \A k \in DOMAIN workers : Finished(workers[k])

\* two workers finished after writing entries, and the generator has read
\* the cache they left
C17_Witness ==
    /\ cmd.command = "digest"
    /\ pc = "snapshot"
    /\ Len(workers) = 2
    /\ \A k \in DOMAIN workers : workers[k].step = "done" /\ Puts(k) # {}

\* C18: no cache key is written by two different hydration workers.
C18_NoSharedKey ==
    \A e1 \in events : \A e2 \in events :
        (e1.op = "put" /\ e2.op = "put" /\ e1.key = e2.key /\ e1.worker # 0
            /\ e2.worker # 0)
        => e1.worker = e2.worker

\* the input the command line calls malformed
EmptyTickerList(c) ==
    IF c.command = "digest" \/ (c.command = "fetch-digest weekly" /\ c.portfolio)
    THEN c.config.exists /\ c.config.islist /\ c.config.val = <<>>
    ELSE c.tickers = <<>> \/ \A k \in 1..Len(c.tickers) : c.tickers[k] \in {",", " "}

BadDate(c) ==
    /\ c.command # "fetch-digest weekly"
    /\ c.digest_date.form \in {"YYYYMMDD", "text"}

Malformed(c) ==
    \/ EmptyTickerList(c)
    \/ BadDate(c)
    \/ /\ c.command = "digest"
       /\ \/ c.workers < 1
          \/ c.portfolio /\ c.digest_type = "daily"
          \/ DateGiven(c.digest_date) /\ c.digest_type = "weekly"

\* C19: a command with malformed input (empty ticker list, a date not in the
\* form YYYY-MM-DD, workers < 1, --portfolio with daily, --date with weekly)
\* ends rejected, with no provider call, no cache write and no output file.
C19_MalformedRejected ==
    Malformed(cmd) =>
        /\ pc \in {"cli", "rejected"}
        /\ events = {}
        /\ files = <<>>
        /\ workers = <<>>

(***************************************************************************)
(* The JSON report against the Markdown report.                            *)
(***************************************************************************)
LinesOfKind(kinds) == SelectSeq(lines, LAMBDA l : l.kind \in kinds)

LinesOf(kinds, ticker) == SelectSeq(lines, LAMBDA l : l.kind \in kinds /\ l.ticker = ticker)

\* what a headline shows in either report
Shown(rows) ==
    [k \in 1..Len(rows) |->
        [source |-> rows[k].source, title |-> rows[k].title, url |-> rows[k].url]]

\* the Markdown shows _format_ratio(score), the JSON the score itself
SameSentiment(line, sentiment) ==
    /\ line.source = (IF sentiment.source = "finnhub" THEN "Finnhub" ELSE "weighted")
    /\ line.label = sentiment.label
    /\ line.score = (IF sentiment.score.kind = "absent" THEN NotAvailable
                     ELSE sentiment.score)

SameSnapshot ==
    IF "note" \in DOMAIN files.json.market_snapshot
    THEN LinesOfKind({"snapshot_note"}) # <<>>
    ELSE LET m == files.json.market_snapshot
         IN LinesOfKind({"breadth", "average", "best", "worst"})
              = <<[kind |-> "breadth", up |-> m.breadth.up, down |-> m.breadth.down],
                  [kind |-> "average", value |-> m.average_change],
                  [kind |-> "best", ticker |-> m.best.ticker, value |-> m.best.change],
                  [kind |-> "worst", ticker |-> m.worst.ticker, value |-> m.worst.change]>>

SameHighlight(h) ==
    /\ LinesOf({"change", "change_na"}, h.ticker)
         = <<IF h.change.some
             THEN [kind |-> "change", ticker |-> h.ticker, value |-> h.change,
                   start_price |-> h.start_price, end_price |-> h.end_price]
             ELSE [kind |-> "change_na", ticker |-> h.ticker]>>
    /\ Len(LinesOf({"sentiment"}, h.ticker)) = 1
    /\ SameSentiment(LinesOf({"sentiment"}, h.ticker)[1], h.sentiment)
    /\ Shown(LinesOf({"headline"}, h.ticker)) = Shown(h.headlines)

\* C20: the JSON report of a finished build carries the content of the
\* Markdown report: the same snapshot, the same sectors and themes in the
\* same order, the same market news and for every ticker the same change,
\* sentiment (source, label, score) and headlines.
C20_JsonMatchesMarkdown ==
    pc = "done" =>
        /\ SameSnapshot
        /\ [k \in 1..Len(SectorLines) |->
               [sector |-> SectorLines[k].sector, average_change |-> SectorLines[k].value]]
             = files.json.sector_rotation
        /\ [k \in 1..Len(LinesOfKind({"theme"})) |->
               [word |-> LinesOfKind({"theme"})[k].word,
                count |-> LinesOfKind({"theme"})[k].count]]
             = files.json.top_themes
        /\ Shown(LinesOfKind({"market_headline"})) = Shown(files.json.market_news)
        /\ \A k \in 1..Len(files.json.ticker_highlights) :
              SameHighlight(files.json.ticker_highlights[k])

(***************************************************************************)
(* A digest invoked twice.                                                 *)
(***************************************************************************)
\* C21: with the cache, the arguments and the clock reading unchanged, the
\* second run of a digest does not fail and every file it writes holds the
\* content the first run left: Markdown, CSV and prompt once they are
\* written again, and all four files at the end.
C21_Idempotent ==
    previous # <<>> =>
        /\ pc # "raised"
        /\ pc = "json" =>
              /\ files.md = previous.md
              /\ files.csv = previous.csv
              /\ files.prompt = previous.prompt
        /\ pc = "done" => files = previous

\* the second run has rewritten a report with headlines of two tickers, a
\* market news item and a weighted sentiment
C21_Witness ==
    /\ previous # <<>>
    /\ pc = "done"
    /\ files = previous
    /\ Len(tickers_sorted) >= 2
    /\ \E r \in Elems(files.csv) : r.scope = "market"
    /\ \E r \in Elems(files.csv) : r.scope = "ticker"
    /\ \E l \in Elems(files.md) : l.kind = "sentiment" /\ l.source = "weighted"

(***************************************************************************)
(* The order of the Markdown report.                                       *)
(***************************************************************************)
\* every Markdown line has been appended
Rendered == pc \in {"write", "json", "done"}

SectionNames ==
    [k \in 1..Len(LinesOfKind({"section"})) |-> LinesOfKind({"section"})[k].name]

\* the section a kind of line belongs to
SectionOfKind(kind) ==
    CASE kind \in {"breadth", "average", "best", "worst", "snapshot_note"} -> "Market Snapshot"
      [] kind \in {"sector", "sector_note"} -> "Sector Rotation"
      [] kind \in {"theme", "themes_note"} -> "Top Themes"
      [] kind \in {"market_headline", "market_note"} -> "Market News"
      [] OTHER -> "Ticker Highlights"

\* the heading above line i
RECURSIVE HeadingAbove(_)
HeadingAbove(i) ==
    IF i = 0 THEN "none"
    ELSE IF lines[i].kind = "section" THEN lines[i].name
    ELSE HeadingAbove(i - 1)

\* the position of a kind of line inside the block of one ticker
RankInTicker(kind) ==
    CASE kind = "ticker" -> 0
      [] kind = "identity" -> 1
      [] kind \in {"change", "change_na"} -> 2
      [] kind = "sentiment" -> 3
      [] kind \in {"headline", "headlines_na"} -> 4
      [] kind \in {"risk_catalyst", "risks_na"} -> 5
      [] OTHER -> 6

TickerBlock(ticker) ==
    SelectSeq(lines, LAMBDA l :
        /\ l.kind \in {"ticker", "identity", "change", "change_na", "sentiment",
                       "headline", "headlines_na", "risk_catalyst", "risks_na"}
        /\ l.ticker = ticker)

\* C22: the Markdown starts with the title and the date, its sections come
\* in the order Market Snapshot, Sector Rotation, Top Themes, Market News
\* (only with market news enabled), Ticker Highlights, every line stands
\* under its own heading, the tickers are in ascending order, and each
\* ticker shows identity, change, sentiment, headlines, risk/catalyst tags
\* in this order.
C22_RenderingOrder ==
    Rendered =>
        /\ SubSeq(lines, 1, 2) = <<[kind |-> "title"], [kind |-> "date"]>>
        /\ SectionNames
             = <<"Market Snapshot", "Sector Rotation", "Top Themes">>
               \o (IF arg.include_market_news THEN <<"Market News">> ELSE <<>>)
               \o <<"Ticker Highlights">>
        /\ \A i \in 1..Len(lines) :
              lines[i].kind \notin {"title", "date", "blank", "section"} =>
                 HeadingAbove(i) = SectionOfKind(lines[i].kind)
        /\ LET T == LinesOfKind({"ticker"})
           IN /\ Len(T) = Len(arg.tickers)
              /\ \A j, k \in 1..Len(T) : j < k => StrLess(T[j].ticker, T[k].ticker)
              /\ \A k \in 1..Len(T) :
                    LET B == TickerBlock(T[k].ticker)
                    IN /\ \A i \in 1..(Len(B) - 1) :
                             RankInTicker(B[i].kind) <= RankInTicker(B[i + 1].kind)
                       /\ \A r \in 0..5 : \E i \in 1..Len(B) : RankInTicker(B[i].kind) = r
                       /\ \A r \in 0..3 :
                             Cardinality({i \in 1..Len(B) : RankInTicker(B[i].kind) = r}) = 1

\* a report with market news and two tickers given in descending order,
\* the first with headlines
C22_Witness ==
    /\ Rendered
    /\ arg.include_market_news
    /\ Len(arg.tickers) = 2
    /\ StrLess(StrUpper(arg.tickers[2]), StrUpper(arg.tickers[1]))
    /\ \E l \in Elems(lines) : l.kind = "market_headline"
    /\ \E l \in Elems(lines) : l.kind = "headline"

(***************************************************************************)
(* The CSV link table.                                                     *)
(***************************************************************************)
\* the row a headline line of the Markdown stands for
RowOfLine(l) ==
    [scope |-> IF l.kind = "market_headline" THEN "market" ELSE "ticker",
     ticker |-> l.ticker, source |-> l.source, title |-> l.title, url |-> l.url]

RowShown(r) ==
    [scope |-> r.scope, ticker |-> r.ticker, source |-> r.source, title |-> r.title,
     url |-> r.url]

\* C23: the CSV holds one row per headline of the report, in the order of
\* the report and nothing else: the market news rows (at most 5, scope
\* market, no ticker) come first, then the rows of each ticker (at most 3,
\* scope ticker); news_links of the JSON holds the same rows.
C23_CsvRows ==
    pc = "done" =>
        LET H == LinesOfKind({"market_headline", "headline"})
            rows == files.csv
        IN /\ [k \in 1..Len(rows) |-> RowShown(rows[k])]
                = [k \in 1..Len(H) |-> RowOfLine(H[k])]
           /\ \A j, k \in 1..Len(rows) :
                 (j < k /\ rows[k].scope = "market") => rows[j].scope = "market"
           /\ \A k \in 1..Len(rows) : rows[k].scope = "market" => rows[k].ticker = <<>>
           /\ Cardinality({k \in 1..Len(rows) : rows[k].scope = "market"}) <= 5
           /\ ~arg.include_market_news => \A k \in 1..Len(rows) : rows[k].scope = "ticker"
           /\ \A t \in Elems(tickers_sorted) :
                 Cardinality({k \in 1..Len(rows) :
                                 rows[k].scope = "ticker" /\ rows[k].ticker = t}) <= 3
           /\ \A j, k \in 1..Len(rows) :
                 (j < k /\ rows[j].scope = "ticker" /\ rows[k].scope = "ticker")
                    => ~StrLess(rows[k].ticker, rows[j].ticker)
           /\ files.json.news_links = rows

\* six market news items are cached and five rows are written for them
C23_WitnessMarket ==
    /\ pc = "done"
    /\ Len(CacheGetList(MarketNewsKey)) = 6
    /\ Cardinality({k \in 1..Len(files.csv) : files.csv[k].scope = "market"}) = 5
    /\ \E k \in 1..Len(files.csv) : files.csv[k].scope = "ticker"

(***************************************************************************)
(* Fundamentals in the weekly highlights.                                  *)
(***************************************************************************)
CoreMetrics ==
    {"market_cap", "totalRevenue", "ebitda", "netIncomeToCommon", "trailingEps",
     "freeCashflow"}

GrowthMetrics == {"revenueGrowth", "earningsGrowth", "debtToEquity"}

HasMetrics(ticker) ==
    /\ FundamentalsKey(ticker) \in DOMAIN cache
    /\ CoreMetrics \cup GrowthMetrics \subseteq DOMAIN cache[FundamentalsKey(ticker)]

\* C24: in the weekly Markdown, the highlights of a ticker whose cached
\* fundamentals hold market cap, revenue, EBITDA, net income, EPS, free cash
\* flow, growth rates and debt to equity contain a "Fundamentals (Core):"
\* line and a "Fundamentals (Growth):" line with the Debt/Equity value.
C24_FundamentalsLines ==
    (Weekly /\ Rendered) =>
        \A k \in 1..Len(tickers_sorted) :
            HasMetrics(tickers_sorted[k]) =>
                /\ \E l \in Elems(lines) :
                      l.kind = "fundamentals_core" /\ l.ticker = tickers_sorted[k]
                /\ \E l \in Elems(lines) :
                      l.kind = "fundamentals_growth" /\ l.ticker = tickers_sorted[k]

(***************************************************************************)
(* The weighted sentiment against its formula.                             *)
(***************************************************************************)
\* the whole days from the published time to the reference time, 0 for a
\* published time after it
AgeDays(item, now) ==
    IF now < item.published_at.t THEN 0
    ELSE (now - item.published_at.t) \div SecondsPerDay

\* 70 * max(0.2, 1 - age_days / 7), and 70 * 0.5 without a parsed timestamp
Weight70(item, now) ==
    IF item.published_at.kind # "dt" THEN 35
    ELSE IF 70 - 10 * AgeDays(item, now) > 14 THEN 70 - 10 * AgeDays(item, now)
    ELSE 14

RECURSIVE WeightSum(_)
WeightSum(k) ==
    IF k = 0 THEN 0 ELSE WeightSum(k - 1) + Weight70(arg.news[k], arg.now)

RECURSIVE PolarityWeightSum(_)
PolarityWeightSum(k) ==
    IF k = 0 THEN 0
    ELSE PolarityWeightSum(k - 1)
         + _headline_sentiment(arg.news[k].title) * Weight70(arg.news[k], arg.now)

\* C25: for a non-empty news sequence the returned score is the sum of
\* polarity * weight over the sum of the weights, the weight being
\* max(0.2, 1 - age_days / 7) for a dated item and 0.5 for an undated one;
\* the label is Positive exactly for score >= 0.15, Negative exactly for
\* score <= -0.15 and Neutral otherwise.
C25_WeightedFormula ==
    (WeightedReturned /\ arg.news # <<>>) =>
        LET W == WeightSum(Len(arg.news))
            P == PolarityWeightSum(Len(arg.news))
        IN /\ W > 0
           /\ ret.val.score.n * W = P * ret.val.score.d
           /\ ret.val.label = L_Positive <=> 20 * P >= 3 * W
           /\ ret.val.label = L_Negative <=> 20 * P <= -3 * W
           /\ ret.val.label = L_Neutral <=> (20 * P < 3 * W /\ 20 * P > -3 * W)

\* a positive headline published after the reference time, a negative one
\* three days old and an undated one: the score is 30/145, labelled Positive
C25_Witness ==
    /\ WeightedReturned /\ Len(arg.news) = 3
    /\ \E i \in 1..3 : /\ arg.news[i].published_at = DT(Now + 1, FALSE)
                       /\ _headline_sentiment(arg.news[i].title) = 1
    /\ \E i \in 1..3 : /\ arg.news[i].published_at = DT(Now - 3 * SecondsPerDay, FALSE)
                       /\ _headline_sentiment(arg.news[i].title) = -1
    /\ \E i \in 1..3 : arg.news[i].published_at = NoneDT
    /\ ret.val.score.n * 145 = 30 * ret.val.score.d
    /\ ret.val.label = L_Positive


(***************************************************************************)
(* Hydration and the entries the cache already holds.                      *)
(***************************************************************************)
\* an entry that was in the cache before hydration began: cache.put is the
\* only writer and every put is recorded in events
CachedBefore(key) ==
    /\ key \in DOMAIN cache
    /\ \A e \in events : ~(e.op = "put" /\ e.key = key)

\* C27: hydration makes no provider call for a key that held a cached value
\* before hydration, whatever the value, and leaves that value unchanged.
C27_OnlyMissingFetched ==
    [][\A key \in DOMAIN cache :
          CachedBefore(key) =>
              /\ cache'[key] = cache[key]
              /\ \A e \in events' \ events : ~(e.op = "fetch" /\ e.key = key)]_vars


(***************************************************************************)
(* The fetch commands: fundamentals, prices, news, financials and          *)
(* market-news.  cmd holds the options of the command line; ret the JSON   *)
(* envelope the command prints; events the provider call and the cache     *)
(* write, the command running on the calling thread (worker 0).            *)
(***************************************************************************)
Yahoo == <<"y","a","h","o","o">>
General == <<"g","e","n","e","r","a","l">>

\* the part of the prices key after the ticker: f":{period}:{interval}"
PeriodInterval(period, interval) ==
    CASE period = "5d" /\ interval = "1d" -> ":5d:1d"
      [] period = "1mo" /\ interval = "1d" -> ":1mo:1d"
      [] OTHER -> ":1mo:1wk"

\* f":{min_id}" for the non-negative values of --min-id in use
MinIdSuffix(min_id) == IF min_id = 0 THEN ":0" ELSE ":1"

\* the ticker or the category after the command's own normalisation
FetchSubject(c) ==
    CASE c.command = "fetch financials" -> StrUpper(Strip(c.ticker))
      [] c.command = "fetch market-news" -> Strip(c.category)
      [] OTHER -> c.ticker

\* raise click.BadParameter(...)
FetchRejected(c) ==
    CASE c.command = "fetch financials" -> FetchSubject(c) = <<>>
      [] c.command = "fetch market-news" -> FetchSubject(c) = <<>> \/ c.min_id < 0
      [] OTHER -> FALSE

\* key = f"..."
FetchKey(c) ==
    CASE c.command = "fetch fundamentals" -> FundamentalsKey(c.ticker)
      [] c.command = "fetch prices" ->
            Key("yahoo:prices:", c.ticker, PeriodInterval(c.period, c.interval))
      [] c.command = "fetch news" ->
            IF c.provider = "yahoo" THEN YahooNewsKey(c.ticker)
            ELSE FinnhubNewsKey(c.ticker)
      [] c.command = "fetch financials" -> Key("yahoo:financials:", FetchSubject(c), "")
      [] OTHER ->
            IF FetchSubject(c) = General /\ c.min_id = 0 THEN MarketNewsKey
            ELSE Key("finnhub:market_news:", FetchSubject(c), MinIdSuffix(c.min_id))

\* the dict yahoo.fetch_financials builds
Financials(ticker) ==
    [symbol |-> ticker, provider |-> Yahoo,
     income_statement |-> [annual |-> <<>>, quarterly |-> <<>>],
     balance_sheet |-> [annual |-> <<>>, quarterly |-> <<>>],
     cashflow |-> [annual |-> <<>>, quarterly |-> <<>>]]

\* what the provider call of the command can return, dumped for the cache
FetchResults(c) ==
    CASE c.command = "fetch fundamentals" -> {Fund_tech}
      [] c.command = "fetch prices" -> {<<>>, <<Bar(100), Bar(105)>>}
      [] c.command = "fetch news" ->
            IF c.provider = "yahoo" THEN {<<>>, <<W_first>>} ELSE {<<>>, <<F_mid>>}
      [] c.command = "fetch financials" -> {Financials(FetchSubject(c))}
      [] OTHER -> {<<>>, <<M_in>>}

_print_json(data, cached) ==
    [ok |-> TRUE, data |-> data, meta |-> [version |-> 1, cached |-> cached]]

\* if not force: cached = cache.get(key); if cached: print it and return.
\* Otherwise the provider call, cache.put and the print of the fresh data.
CachedOrFetched ==
    LET key == FetchKey(cmd)
        call == [op |-> "fetch", worker |-> 0, key |-> key]
    IN IF ~cmd.force /\ CacheHit(key)
       THEN /\ ret' = Returned(_print_json(cache[key], TRUE))
            /\ pc' = "return"
            /\ UNCHANGED <<cache, events, exc>>
       ELSE \/ \E data \in FetchResults(cmd) :
                  /\ cache' = CachePut(key, data)
                  /\ events' = events \cup {call, [op |-> "put", worker |-> 0, key |-> key]}
                  /\ ret' = Returned(_print_json(data, FALSE))
                  /\ pc' = "return"
                  /\ exc' = exc
            \/ /\ events' = events \cup {call, [op |-> "error", worker |-> 0, key |-> key]}
               /\ pc' = "raised"
               /\ exc' = "ProviderError"
               /\ UNCHANGED <<cache, ret>>

BadParameter ==
    /\ pc' = "rejected"
    /\ exc' = "BadParameter"
    /\ UNCHANGED <<cache, events, ret>>

fetch_unchanged ==
    UNCHANGED <<arg, idx, ticker_data, all_news, lines, csv_rows, locals, files, cmd,
                workers, previous, transcripts>>

fundamentals ==
    /\ pc = "fetch"
    /\ cmd.command = "fetch fundamentals"
    /\ CachedOrFetched
    /\ fetch_unchanged

prices ==
    /\ pc = "fetch"
    /\ cmd.command = "fetch prices"
    /\ CachedOrFetched
    /\ fetch_unchanged

news ==
    /\ pc = "fetch"
    /\ cmd.command = "fetch news"
    /\ CachedOrFetched
    /\ fetch_unchanged

financials ==
    /\ pc = "fetch"
    /\ cmd.command = "fetch financials"
    /\ IF FetchRejected(cmd) THEN BadParameter ELSE CachedOrFetched
    /\ fetch_unchanged

market_news ==
    /\ pc = "fetch"
    /\ cmd.command = "fetch market-news"
    /\ IF FetchRejected(cmd) THEN BadParameter ELSE CachedOrFetched
    /\ fetch_unchanged

FetchCmd(command, ticker, period, interval, provider, category, min_id, force) ==
    [command |-> command, ticker |-> ticker, period |-> period, interval |-> interval,
     provider |-> provider, category |-> category, min_id |-> min_id, force |-> force]

FetchCommands ==
    {FetchCmd("fetch fundamentals", AAA, "", "", "", <<>>, 0, f) : f \in BOOLEAN}
    \cup {FetchCmd("fetch prices", AAA, p, "1d", "", <<>>, 0, f) :
             p \in {"5d", "1mo"}, f \in BOOLEAN}
    \cup {FetchCmd("fetch news", AAA, "", "", p, <<>>, 0, f) :
             p \in {"yahoo", "finnhub"}, f \in BOOLEAN}
    \cup {FetchCmd("fetch financials", t, "", "", "", <<>>, 0, f) :
             t \in {<<"a","a","a"," ">>, <<" ">>}, f \in BOOLEAN}
    \cup {FetchCmd("fetch market-news", <<>>, "", "", "", c, m, f) :
             c \in {General, <<" ">>}, m \in {-1, 0, 1}, f \in BOOLEAN}

\* what the cache can hold under the command's key: what an earlier run of
\* the command put there
CachedOptions(c) ==
    CASE c.command = "fetch fundamentals" -> {Miss, Hit(Fund_energy)}
      [] c.command = "fetch prices" -> {Miss, Hit(<<>>), Hit(<<Bar(100), Bar(100)>>)}
      [] c.command = "fetch news" -> {Miss, Hit(<<>>), Hit(<<W_last>>)}
      [] c.command = "fetch financials" -> {Miss, Hit(Financials(AAA))}
      [] OTHER -> {Miss, Hit(<<>>), Hit(<<M_out>>)}

BBB == <<"B","B","B">>

\* the entry of the command, if any, next to an entry of another ticker
FetchCaches(c) ==
    {[k \in {PricesKey(BBB)} \cup (IF o.hit THEN {FetchKey(c)} ELSE {}) |->
         IF k = PricesKey(BBB) THEN <<Bar(100), Bar(105)>> ELSE o.val] :
        o \in CachedOptions(c)}

InitFetch ==
    /\ pc = "fetch"
    /\ cmd \in FetchCommands
    /\ cache \in FetchCaches(cmd)
    /\ arg = NoArg
    /\ ret = NoResult
    /\ idx = 0
    /\ ticker_data = <<>>
    /\ all_news = <<>>
    /\ lines = <<>>
    /\ csv_rows = <<>>
    /\ locals = NoLocals
    /\ files = <<>>
    /\ exc = "none"
    /\ workers = <<>>
    /\ events = {}
    /\ previous = <<>>
    /\ transcripts = <<>>

NextFetch ==
    \/ fundamentals
    \/ prices
    \/ news
    \/ financials
    \/ market_news

SpecFetch == InitFetch /\ [][NextFetch]_vars

(***************************************************************************)
(* Properties of the fetch commands.                                       *)
(***************************************************************************)
\* C28: without --force a command whose key holds a cached value prints that
\* value with meta.cached = true, calls no provider and leaves the cache
\* unchanged; with --force it calls the provider and, when the call returns,
\* replaces the entry by the fresh result and prints it with meta.cached =
\* false.
C28_CachedUnlessForced ==
    [][(pc = "fetch" /\ ~FetchRejected(cmd)) =>
         LET key == FetchKey(cmd)
         IN /\ (~cmd.force /\ key \in DOMAIN cache) =>
                  /\ pc' = "return"
                  /\ ret' = Returned(_print_json(cache[key], TRUE))
                  /\ cache' = cache
                  /\ events' = events
            /\ cmd.force =>
                  /\ \E e \in events' : e.op = "fetch" /\ e.key = key
                  /\ pc' = "return" =>
                        /\ ~ret'.val.meta.cached
                        /\ key \in DOMAIN cache'
                        /\ cache'[key] = ret'.val.data
                        /\ \E e \in events' : e.op = "put" /\ e.key = key]_vars


(***************************************************************************)
(* TranscriptStore: the transcripts table of the SQLite file, one row per  *)
(* url (url TEXT PRIMARY KEY).  A Transcript is a record of its fields; a  *)
(* row holds the columns, speakers and sections as JSON text.              *)
(***************************************************************************)
Quote == "\""
Backslash == "\\"

\* the JSON string literal json.dumps writes for a str
RECURSIVE JsonEscape(_)
JsonEscape(str) ==
    IF str = <<>> THEN <<>>
    ELSE (IF Head(str) \in {Quote, Backslash} THEN <<Backslash, Head(str)>>
          ELSE <<Head(str)>>) \o JsonEscape(Tail(str))

JsonString(str) == <<Quote>> \o JsonEscape(str) \o <<Quote>>

JsonNull == <<"n","u","l","l">>

\* a str or None
JsonOptional(v) == IF v = None THEN JsonNull ELSE JsonString(v)

K_speaker == <<"s","p","e","a","k","e","r">>
K_text == <<"t","e","x","t">>
K_role == <<"r","o","l","e">>

\* the JSON object of one section: {"speaker": ..., "text": ..., "role": ...}
JsonSection(sec) ==
    <<"{">> \o JsonString(K_speaker) \o <<":", " ">> \o JsonString(sec.speaker)
        \o <<",", " ">> \o JsonString(K_text) \o <<":", " ">> \o JsonString(sec.text)
        \o <<",", " ">> \o JsonString(K_role) \o <<":", " ">> \o JsonOptional(sec.role)
        \o <<"}">>

RECURSIVE JsonJoin(_)
JsonJoin(texts) ==
    IF texts = <<>> THEN <<>>
    ELSE IF Len(texts) = 1 THEN texts[1]
    ELSE texts[1] \o <<",", " ">> \o JsonJoin(Tail(texts))

\* json.dumps(payload.get("speakers", []))
DumpsSpeakers(speakers) ==
    <<"[">> \o JsonJoin([k \in 1..Len(speakers) |-> JsonString(speakers[k])]) \o <<"]">>

\* json.dumps(payload.get("sections", []))
DumpsSections(sections) ==
    <<"[">> \o JsonJoin([k \in 1..Len(sections) |-> JsonSection(sections[k])]) \o <<"]">>

\* the scanner of json.loads on a string literal whose opening quote is at
\* i - 1: the str and the index after the closing quote
RECURSIVE ScanString(_, _, _)
ScanString(text, i, acc) ==
    IF text[i] = Quote THEN [val |-> acc, next |-> i + 1]
    ELSE IF text[i] = Backslash THEN ScanString(text, i + 2, Append(acc, text[i + 1]))
    ELSE ScanString(text, i + 1, Append(acc, text[i]))

\* a string literal or null at i
ScanOptional(text, i) ==
    IF text[i] = Quote THEN ScanString(text, i + 1, <<>>)
    ELSE [val |-> None, next |-> i + Len(JsonNull)]

\* "key": value at i, the value a string literal or null
ScanMember(text, i) ==
    LET key == ScanString(text, i + 1, <<>>)
        value == ScanOptional(text, key.next + 2)
    IN [key |-> key.val, val |-> value.val, next |-> value.next]

\* the object at i as a dict of its three members
ScanSection(text, i) ==
    LET m1 == ScanMember(text, i + 1)
        m2 == ScanMember(text, m1.next + 2)
        m3 == ScanMember(text, m2.next + 2)
        members == <<m1, m2, m3>>
        member(key) == (CHOOSE m \in {members[k] : k \in 1..3} : m.key = key).val
    IN [val |-> [speaker |-> member(K_speaker), text |-> member(K_text),
                 role |-> member(K_role)],
        next |-> m3.next + 1]

RECURSIVE ScanSpeakers(_, _, _)
ScanSpeakers(text, i, acc) ==
    IF text[i] = "]" THEN acc
    ELSE LET e == ScanString(text, i + 1, <<>>)
         IN ScanSpeakers(text, IF text[e.next] = "," THEN e.next + 2 ELSE e.next,
                         Append(acc, e.val))

RECURSIVE ScanSections(_, _, _)
ScanSections(text, i, acc) ==
    IF text[i] = "]" THEN acc
    ELSE LET e == ScanSection(text, i)
         IN ScanSections(text, IF text[e.next] = "," THEN e.next + 2 ELSE e.next,
                         Append(acc, e.val))

\* json.loads(speakers_json)
LoadsSpeakers(text) == ScanSpeakers(text, 2, <<>>)

\* json.loads(sections_json)
LoadsSections(text) == ScanSections(text, 2, <<>>)

\* date.isoformat(), the str model_dump(mode="json") puts for a date
IsoDate(d) == IF d.some THEN [iso |-> d.n] ELSE None

\* transcript.model_dump(mode="json", by_alias=True)
model_dump(t) == [t EXCEPT !.event_date = IsoDate(t.event_date)]

\* the column values of the INSERT statement
RowOf(payload) ==
    [url |-> payload.url, symbol |-> payload.symbol, company |-> payload.company,
     title |-> payload.title, quarter |-> payload.quarter,
     event_date |-> payload.event_date,
     speakers |-> DumpsSpeakers(payload.speakers),
     sections |-> DumpsSections(payload.sections),
     full_text |-> payload.full_text, raw_html |-> payload.raw_html]

\* INSERT without OR REPLACE on a table that had no primary key
InsertOrReplace_Insert(table, row) == Append(table, row)

\* INSERT OR REPLACE: the row that holds the url is deleted, the new row
\* inserted
InsertOrReplace(table, row) ==
    Append(SelectSeq(table, LAMBDA r : r.url # row.url), row)

\* None where a dict may be returned
NoneDict == [none |-> TRUE]

\* SELECT ... WHERE url = ? and fetchone(), then the dict get() returns
Select(table, url) ==
    LET found == SelectSeq(table, LAMBDA r : r.url = url)
    IN IF found = <<>> THEN NoneDict
       ELSE LET row == found[1]
            IN [provider |-> Yahoo, url |-> row.url, symbol |-> row.symbol,
                company |-> row.company, title |-> row.title,
                quarter |-> row.quarter, event_date |-> row.event_date,
                speakers |-> IF Truthy(row.speakers) THEN LoadsSpeakers(row.speakers)
                             ELSE <<>>,
                sections |-> IF Truthy(row.sections) THEN LoadsSections(row.sections)
                             ELSE <<>>,
                full_text |-> Or(row.full_text, <<>>), raw_html |-> row.raw_html]

Url_q1 == <<"u","1">>
Url_q2 == <<"u","2">>
Url_unknown == <<"u","3">>

IREN == <<"I","R","E","N">>

Section(speaker, text, role) == [speaker |-> speaker, text |-> text, role |-> role]

TranscriptOf(url, symbol, title, event_date, speakers, sections, full_text) ==
    [provider |-> Yahoo, url |-> url, symbol |-> symbol, company |-> symbol,
     title |-> title, quarter |-> None, event_date |-> event_date,
     speakers |-> speakers, sections |-> sections, full_text |-> full_text,
     raw_html |-> None]

\* a scraped transcript, a transcript with nothing but its url, one without
\* sections, and one whose texts hold the characters JSON escapes
Transcripts ==
    UNION {{TranscriptOf(u, IREN, <<"Q","1">>, Num(DigestDay, 1), <<<<"O","p">>, <<"C","E","O">>>>,
                         <<Section(<<"O","p">>, <<"H","i">>, None),
                           Section(<<"C","E","O">>, <<"o","k">>, <<"C","E","O">>)>>,
                         <<"H","i"," ","o","k">>),
            TranscriptOf(u, None, None, NoneNum, <<>>, <<>>, <<>>),
            TranscriptOf(u, IREN, None, NoneNum, <<<<"O","p">>>>, <<>>, <<"H","i">>),
            TranscriptOf(u, IREN, <<Quote>>, NoneNum, <<<<Quote, ",", " ", Backslash>>>>,
                         <<Section(<<"]">>, <<Backslash, Quote, "}">>, <<"n">>)>>,
                         <<Quote>>)} : u \in {Url_q1, Url_q2}}

\* store.upsert(transcript)
upsert ==
    /\ pc \in {"store", "upserted", "got"}
    /\ \E t \in Transcripts :
          /\ transcripts' = InsertOrReplace(transcripts, RowOf(model_dump(t)))
          /\ arg' = [op |-> "upsert", transcript |-> t]
          /\ events' = events \cup {[op |-> "upsert", url |-> t.url]}
    /\ ret' = NoResult
    /\ pc' = "upserted"
    /\ UNCHANGED <<digest_vars, cmd, workers, previous>>

\* store.get(url)
get ==
    /\ pc \in {"store", "upserted", "got"}
    /\ \E url \in {Url_q1, Url_q2, Url_unknown} :
          /\ ret' = Returned(Select(transcripts, url))
          /\ arg' = [op |-> "get", url |-> url]
    /\ pc' = "got"
    /\ UNCHANGED <<digest_vars, cmd, workers, events, previous, transcripts>>

InitTranscripts ==
    /\ pc = "store"
    /\ arg = [op |-> "none"]
    /\ ret = NoResult
    /\ DigestIdle

NextTranscripts == upsert \/ get

SpecTranscripts == InitTranscripts /\ [][NextTranscripts]_vars

(***************************************************************************)
(* Properties of the transcript store.                                     *)
(***************************************************************************)
RowsOfUrl(table, url) == SelectSeq(table, LAMBDA r : r.url = url)

\* the fields of the claim agree between a stored record and a transcript
SameTranscript(rec, t) ==
    /\ rec # NoneDict
    /\ rec.url = t.url
    /\ rec.symbol = t.symbol
    /\ rec.company = t.company
    /\ rec.title = t.title
    /\ rec.quarter = t.quarter
    /\ rec.speakers = t.speakers
    /\ rec.sections = t.sections
    /\ rec.full_text = t.full_text

C29_ChangeLineIffDefined ==
    Rendered =>
        /\ \A k \in DOMAIN ticker_data :
              LET data == ticker_data[k]
              IN /\ (LinesOf({"change"}, data.ticker) # <<>>) <=> data.change.some
                 /\ (LinesOf({"change_na"}, data.ticker) # <<>>) <=> ~data.change.some
        /\ Len(LinesOfKind({"change"})) = Len(locals.changes)


(***************************************************************************)
(* A ticker symbol given more than once.                                   *)
(***************************************************************************)
RECURSIVE NewsCount(_)
NewsCount(dict) ==
    IF dict = <<>> THEN 0 ELSE Len(Head(dict).news) + NewsCount(Tail(dict))

\* C30: in a finished build every distinct ticker symbol has one Ticker
\* Highlights section and one ticker_highlights entry, its surfaced headlines
\* are in the CSV once, and all_news, which Top Themes counts, holds the news
\* of every symbol once.
C30_TickerOnce ==
    pc = "done" =>
        /\ \A k \in DOMAIN ticker_data :
              LET data == ticker_data[k]
              IN /\ Len(LinesOf({"ticker"}, data.ticker)) = 1
                 /\ Len(SelectSeq(files.json.ticker_highlights,
                                  LAMBDA h : h.ticker = data.ticker)) = 1
                 /\ Len(SelectSeq(csv_rows,
                                  LAMBDA r : r.scope = "ticker" /\ r.ticker = data.ticker))
                       = Len(Take(data.news, 3))
        /\ Len(all_news) = NewsCount(ticker_data)

====
